---- MODULE Spec2Model ----
(***************************************************************************)
(* Model of the cameraController repository: the exposure monitor of       *)
(* focus.cpp (ZCAMExposureMonitor), the production controller of           *)
(* production.cpp / ZCAMController, the surf controller                    *)
(* (ZCAMExposureController), the one-frame capture of ffmpeg_cap.cpp and   *)
(* the two-camera process of main.cpp.                                     *)
(*                                                                         *)
(* Numbers: confidences and sun factors are doubles in the code and are    *)
(* kept here in thousandths; EV values are kept in tenths (the camera's    *)
(* integer EV steps); brightness, contrast and percentages are sampled at  *)
(* integer values on both sides of every threshold the code compares to.   *)
(***************************************************************************)
EXTENDS Integers, Sequences, FiniteSets, TLC

(***************************************************************************)
(* Bounds of the model.                                                    *)
(***************************************************************************)
MaxAnalyses == 2
MaxTicks == 3
MaxPackets == 2
MaxPixels == 3
MaxRounds == 3

(***************************************************************************)
(* Program constants.                                                      *)
(***************************************************************************)
target_brightness == 128
brightness_tolerance == 15
confidence_threshold == 600
default_confidence == 500
ProbePackets == 30
NalMinSize == 1000
FallbackBytes == 50000

Max(a, b) == IF a >= b THEN a ELSE b
Min(a, b) == IF a <= b THEN a ELSE b
Abs(a) == IF a >= 0 THEN a ELSE 0 - a

(***************************************************************************)
(* Input samples.  A metrics record is what analyzeExposure returns for    *)
(* one frame; the samples straddle every threshold of the advisors.        *)
(***************************************************************************)
BrightnessSamples == {60, 90, 105, 128, 145, 160, 175, 185, 195}
ContrastSamples == {10, 30, 70, 90}
ScoreSamples == {50, 100}
ClipSamples == {0, 100}
\* minutes after midnight at which the wall clock is read; the sun factors
\* are 0.1, 0.511, 0.688, 0.733 and 1.0
ClockSamples == {0, 1000, 640, 660, 780}

Metrics == [mean_brightness : BrightnessSamples, contrast : ContrastSamples,
            clipped_highlights : ClipSamples, clipped_shadows : ClipSamples,
            saturation_level : ClipSamples, exposure_score : ScoreSamples]

(***************************************************************************)
(* calculateSunAngleFactor: hour = tm_hour + tm_min/60; between 6 and 22   *)
(* the factor is max(0.1, (90 - |hour - 13| * 12) / 90), else 0.1.         *)
(* `minute` is the minute of the day, the result is in thousandths.        *)
(***************************************************************************)
calculateSunAngleFactor(minute) ==
    IF minute >= 360 /\ minute <= 1320
    THEN LET hour_angle == Abs(minute - 780)
             \* sun_elevation / 90, with hour_angle in minutes
             elev == ((5400 - hour_angle * 12) * 1000) \div 5400
         IN Max(100, elev)
    ELSE 100

(***************************************************************************)
(* focus.cpp, ZCAMExposureMonitor::recommendSettings, in its four parts.   *)
(* Each part yields the value it chooses, the confidence it adds and       *)
(* whether it pushed a reason.  cs is camera_state, m the metrics.         *)
(***************************************************************************)
\* an ISO rule that never leaves the current ISO
recommendISONoStep(m, cs) ==
    [val |-> cs.current_iso, add |-> 0, reason |-> FALSE, native |-> FALSE]

recommendISO(m, cs) ==
    LET brightness_error == m.mean_brightness - target_brightness
    IN IF brightness_error < 0 - brightness_tolerance
       THEN IF cs.current_iso <= 500
            THEN [val |-> 2500, add |-> 300, reason |-> TRUE, native |-> TRUE]
            ELSE IF cs.current_iso < 2500
            THEN [val |-> 2500, add |-> 300, reason |-> TRUE, native |-> TRUE]
            ELSE IF cs.current_iso = 2500 /\ brightness_error < 0 - 30
            THEN [val |-> 5000, add |-> 200, reason |-> TRUE, native |-> FALSE]
            ELSE [val |-> cs.current_iso, add |-> 0, reason |-> FALSE, native |-> FALSE]
       ELSE IF brightness_error > brightness_tolerance
       THEN IF cs.current_iso > 500
            THEN [val |-> 500, add |-> 300, reason |-> TRUE, native |-> TRUE]
            ELSE IF cs.current_iso = 500
            THEN [val |-> 400, add |-> 200, reason |-> TRUE, native |-> FALSE]
            ELSE IF cs.current_iso = 400
            THEN [val |-> cs.current_iso, add |-> 100, reason |-> TRUE, native |-> FALSE]
            ELSE [val |-> cs.current_iso, add |-> 0, reason |-> FALSE, native |-> FALSE]
       ELSE IF cs.current_iso # 500 /\ cs.current_iso # 2500
            THEN IF cs.current_iso < 1250
                 THEN [val |-> 500, add |-> 100, reason |-> TRUE, native |-> TRUE]
                 ELSE [val |-> 2500, add |-> 100, reason |-> TRUE, native |-> TRUE]
            ELSE [val |-> cs.current_iso, add |-> 0, reason |-> FALSE, native |-> FALSE]

\* EV in tenths: current_steps = (int)(current_ev * 10), clamped to -96 .. 96
recommendEV(m, cs) ==
    LET brightness_error == m.mean_brightness - target_brightness
        current_steps == cs.current_ev
    IN IF brightness_error > 60
       THEN [val |-> Max(current_steps - 15, 0 - 96), add |-> 500, reason |-> TRUE]
       ELSE IF brightness_error > 40
       THEN [val |-> Max(current_steps - 10, 0 - 96), add |-> 400, reason |-> TRUE]
       ELSE IF brightness_error > 20
       THEN [val |-> Max(current_steps - 7, 0 - 96), add |-> 300, reason |-> TRUE]
       ELSE IF brightness_error < 0 - 30
       THEN [val |-> Min(current_steps + 10, 96), add |-> 300, reason |-> TRUE]
       ELSE IF m.clipped_highlights > 3
       THEN [val |-> Max(current_steps - 5, 0 - 96), add |-> 200, reason |-> TRUE]
       ELSE [val |-> cs.current_ev, add |-> 0, reason |-> FALSE]

\* the aperture is chosen from the brightness and the sun factor alone
ApertureChoice(ap, add, cs) ==
    [val |-> ap,
     add |-> IF cs.current_aperture # ap THEN add ELSE 0,
     reason |-> cs.current_aperture # ap]

\* a recommendAperture that reads the sun factor an earlier call left in
\* camera_state
recommendApertureStale(m, cs, sun_factor) ==
    IF m.mean_brightness > 150 THEN ApertureChoice("16", 200, cs)
    ELSE IF cs.sun_factor > 700 \/ m.mean_brightness > 140 THEN ApertureChoice("11", 200, cs)
    ELSE IF m.mean_brightness < 80 THEN ApertureChoice("2.8", 300, cs)
    ELSE ApertureChoice("8", 100, cs)

recommendAperture(m, cs, sun_factor) ==
    IF m.mean_brightness > 190 THEN ApertureChoice("22", 400, cs)
    ELSE IF m.mean_brightness > 170 THEN ApertureChoice("18", 300, cs)
    ELSE IF m.mean_brightness > 150 THEN ApertureChoice("16", 200, cs)
    ELSE IF sun_factor > 700 \/ m.mean_brightness > 140 THEN ApertureChoice("11", 200, cs)
    ELSE IF m.mean_brightness < 80 THEN ApertureChoice("2.8", 300, cs)
    ELSE IF m.mean_brightness < 110 THEN ApertureChoice("4", 200, cs)
    ELSE ApertureChoice("8", 100, cs)

ShutterChoice(sa, add, cs) ==
    [val |-> sa,
     add |-> IF cs.current_shutter_angle # sa THEN add ELSE 0,
     reason |-> cs.current_shutter_angle # sa]

recommendShutter(m, cs, sun_factor) ==
    IF m.mean_brightness > 180 THEN ShutterChoice(90, 200, cs)
    ELSE IF sun_factor > 600 /\ m.mean_brightness > 140 THEN ShutterChoice(120, 100, cs)
    ELSE IF m.mean_brightness < 80 THEN ShutterChoice(270, 100, cs)
    ELSE [val |-> 180, add |-> 0, reason |-> FALSE]

\* the tail without its final std::min(1.0, confidence)
finishConfidenceUnclamped(sum, anyReason, m) ==
    LET c1 == IF anyReason THEN sum ELSE Max(800, sum)
        c2 == IF m.contrast < 15 \/ m.contrast > 80 THEN (c1 * 8) \div 10 ELSE c1
    IN IF m.exposure_score > 75 THEN c2 + 100 ELSE c2

\* the tail of recommendSettings: reasons.empty(), the contrast factor, the
\* score bonus and the final std::min(1.0, confidence)
finishConfidence(sum, anyReason, m) ==
    LET c1 == IF anyReason THEN sum ELSE Max(800, sum)
        c2 == IF m.contrast < 15 \/ m.contrast > 80 THEN (c1 * 8) \div 10 ELSE c1
        c3 == IF m.exposure_score > 75 THEN c2 + 100 ELSE c2
    IN Min(1000, c3)

\* sun_factor is what calculateSunAngleFactor returned inside the call
recommendSettings(m, cs, sun_factor) ==
    LET i == recommendISO(m, cs)
        e == recommendEV(m, cs)
        a == recommendAperture(m, cs, sun_factor)
        s == recommendShutter(m, cs, sun_factor)
    IN [iso |-> i.val,
        exposure_compensation |-> e.val,
        aperture |-> a.val,
        shutter_angle |-> s.val,
        is_native_iso |-> i.native,
        confidence |-> finishConfidence(default_confidence + i.add + e.add + a.add + s.add,
                                        i.reason \/ e.reason \/ a.reason \/ s.reason, m)]

(***************************************************************************)
(* ZCAMFFmpegController::recommendSettings (and the identical              *)
(* ZCAMController::recommendSettings), in the same four parts.             *)
(***************************************************************************)
recommendISOFFmpeg(m, cs) ==
    LET brightness_error == m.mean_brightness - target_brightness
    IN IF brightness_error < 0 - brightness_tolerance
       THEN IF cs.current_iso <= 500
            THEN [val |-> 2500, add |-> 300, reason |-> TRUE, native |-> TRUE]
            ELSE IF cs.current_iso < 2500
            THEN [val |-> 2500, add |-> 300, reason |-> TRUE, native |-> TRUE]
            ELSE IF cs.current_iso = 2500 /\ brightness_error < 0 - 30
            THEN [val |-> 5000, add |-> 200, reason |-> TRUE, native |-> FALSE]
            ELSE [val |-> cs.current_iso, add |-> 0, reason |-> FALSE, native |-> FALSE]
       ELSE IF brightness_error > brightness_tolerance
       THEN IF cs.current_iso > 2500
            THEN [val |-> 2500, add |-> 200, reason |-> TRUE, native |-> TRUE]
            ELSE IF cs.current_iso = 2500
            THEN [val |-> 500, add |-> 300, reason |-> TRUE, native |-> TRUE]
            ELSE IF cs.current_iso > 500
            THEN [val |-> 500, add |-> 200, reason |-> TRUE, native |-> TRUE]
            ELSE [val |-> cs.current_iso, add |-> 0, reason |-> FALSE, native |-> FALSE]
       ELSE IF cs.current_iso # 500 /\ cs.current_iso # 2500
            THEN IF cs.current_iso < 1250
                 THEN [val |-> 500, add |-> 100, reason |-> TRUE, native |-> TRUE]
                 ELSE [val |-> 2500, add |-> 100, reason |-> TRUE, native |-> TRUE]
            ELSE [val |-> cs.current_iso, add |-> 0, reason |-> FALSE, native |-> FALSE]

\* EV in tenths, clamped to -2.0 .. 2.0
recommendEVFFmpeg(m, cs) ==
    IF m.clipped_highlights > 3
    THEN [val |-> Max(cs.current_ev - 7, 0 - 20), add |-> 200, reason |-> TRUE]
    ELSE IF m.clipped_shadows > 8 /\ m.mean_brightness < 100
    THEN [val |-> Min(cs.current_ev + 5, 20), add |-> 200, reason |-> TRUE]
    ELSE IF m.saturation_level > 15
    THEN [val |-> Max(cs.current_ev - 3, 0 - 20), add |-> 100, reason |-> TRUE]
    ELSE [val |-> cs.current_ev, add |-> 0, reason |-> FALSE]

recommendApertureFFmpeg(m, cs, sun_factor) ==
    IF sun_factor > 800 THEN ApertureChoice("8.0", 100, cs)
    ELSE IF sun_factor < 300 THEN ApertureChoice("2.8", 200, cs)
    ELSE IF m.contrast > 60 THEN [val |-> "5.6", add |-> 0, reason |-> TRUE]
    ELSE [val |-> cs.current_aperture, add |-> 0, reason |-> FALSE]

recommendShutterFFmpeg(m, cs, sun_factor) ==
    IF sun_factor > 600 /\ m.contrast > 40 THEN [val |-> 180, add |-> 0, reason |-> FALSE]
    ELSE IF m.mean_brightness < 80 THEN ShutterChoice(270, 100, cs)
    ELSE [val |-> cs.current_shutter_angle, add |-> 0, reason |-> FALSE]

recommendSettingsFFmpeg(m, cs, sun_factor) ==
    LET i == recommendISOFFmpeg(m, cs)
        e == recommendEVFFmpeg(m, cs)
        a == recommendApertureFFmpeg(m, cs, sun_factor)
        s == recommendShutterFFmpeg(m, cs, sun_factor)
    IN [iso |-> i.val,
        exposure_compensation |-> e.val,
        aperture |-> a.val,
        shutter_angle |-> s.val,
        is_native_iso |-> i.native,
        confidence |-> finishConfidence(default_confidence + i.add + e.add + a.add + s.add,
                                        i.reason \/ e.reason \/ a.reason \/ s.reason, m)]

(***************************************************************************)
(* The processes.  One of the repository's executables runs:               *)
(*   "monitor"    focus.cpp, ZCAMExposureMonitor::runMonitoring            *)
(*   "capture"    ffmpeg_cap.cpp, main: connect, then captureOneFrame      *)
(*   "production" production.cpp, ZCAMProductionController                 *)
(*   "surf"       ZCAMExposureController::runAutoAdjustment                *)
(*   "main"       main.cpp: two ZCAMController threads and the service     *)
(* Memory allocation is assumed to succeed.                                *)
(***************************************************************************)
VARIABLES
    prog,                \* the executable that runs
    pc,                  \* position of the (main) thread
    keep_running,        \* std::atomic<bool> keep_running
    format_ctx,          \* "null", or "open" after avformat_open_input
    codec_ctx,           \* "null", "alloc" (allocated, not opened) or "open"
    video_stream_index,  \* -1 or the index chosen by the detection
    camera_state,        \* CameraState of the monitor and the surf controller
    settings,            \* CameraSettings of each production controller object
    auto_adjust_enabled,
    changes_applied,
    analysis_count,
    adjustment_count,
    exposure_history,    \* number of entries of the surf controller's history
    ticks,               \* iterations of the production / surf / controller loops
    metrics,             \* metrics of the frame captured last
    rec,                 \* recommendation computed last
    connect_ok,          \* history: "none", or the result of the latest connect
    fault,               \* history: the bootstrap failure of the latest connect
    frames,              \* history: frames captured since the latest connect
    set_log,             \* history: set requests sent in this iteration
    controllers,         \* main.cpp: position and locals of the left / right thread
    service_pc,          \* main.cpp: position of the service loop
    touched,             \* history: the threads that accessed each shared object
    probe,               \* history: the stream a bootstrap was given, the strategies
                         \* it ran in their order, and the one that chose the stream
    frame,               \* the pixels of the frame an analyzer is called on
    trail,               \* history: one entry for each iteration of a repeated advisor
    async,               \* someNetwork::https_async_get: promise, timer, io_context, handler chain
    op                   \* history: the operation of the program that ran last; the
                         \* asynchronous signal handler is not one

CameraThreads == {"left", "right"}
SharedObjects == {"format_ctx", "codec_ctx", "video_stream_index", "logger"}

streamVars == <<format_ctx, codec_ctx, video_stream_index, connect_ok, fault, frames>>
adviceVars == <<metrics, rec>>
ctlVars == <<auto_adjust_enabled, changes_applied, analysis_count, adjustment_count,
            exposure_history, ticks>>

mainVars == <<controllers, service_pc, touched>>

NoMetrics == [mean_brightness |-> 0 - 1]
NoRec == [confidence |-> 0 - 1]

\* https_async_get before it is called
NotCalled ==
    [step |-> "none", timer |-> "none", timer_cancelled |-> FALSE, socket |-> "none",
     ioc |-> "none", set_value |-> 0, value |-> "none", returned |-> FALSE,
     process |-> "running"]

(***************************************************************************)
(* HTTP.  sendHTTPRequest succeeds on CURLE_OK and status 200; the body    *)
(* is then unparseable, a JSON object without the expected members, or     *)
(* {"code":0,...}.                                                         *)
(***************************************************************************)
SetResponses == {"fail", "rejected", "unparseable", "code0"}

\* focus.cpp applyCameraSetting: a 200 answer that does not parse counts as applied
applyCameraSetting(resp) == resp \in {"unparseable", "code0"}

\* the camera's answers to /ctrl/get: ok is success, parse, code 0 and a value
Answers(values, none) == {[ok |-> FALSE, value |-> none]} \cup {[ok |-> TRUE, value |-> v] : v \in values}
QueryISO == Answers({1000}, 0)
QueryEV == Answers({0}, 0)
QueryAperture == Answers({"11"}, "")
QueryShutter == Answers({180}, 0)

getCurrentCameraSettings(cs, iso, ev, shutter, aperture) ==
    [cs EXCEPT !.current_iso = IF iso.ok THEN iso.value ELSE @,
               !.current_ev = IF ev.ok THEN ev.value ELSE @,
               !.current_shutter_angle = IF shutter.ok THEN shutter.value ELSE @,
               !.current_aperture = IF aperture.ok THEN aperture.value ELSE @]

(***************************************************************************)
(* applyRecommendations of focus.cpp.  r is the recommendation, resp the   *)
(* camera's answer to each set request, should it be sent.  The result is  *)
(* the new camera_state, the requests sent and any_changes.                *)
(***************************************************************************)
SetParams == <<"iso", "ev", "iris", "shutter_angle">>

Gate(r, enabled) == enabled /\ ~(r.confidence < confidence_threshold)

Wanted(r, cs) ==
    [iso |-> r.iso # cs.current_iso,
     ev |-> Abs(r.exposure_compensation - cs.current_ev) >= 1,
     iris |-> r.aperture # cs.current_aperture,
     shutter_angle |-> r.shutter_angle # cs.current_shutter_angle]

RequestedValue(r) ==
    [iso |-> r.iso, ev |-> r.exposure_compensation,
     iris |-> r.aperture, shutter_angle |-> r.shutter_angle]

SentRequests(r, cs, resp) ==
    LET w == Wanted(r, cs)
        v == RequestedValue(r)
        one(p) == IF w[p] THEN <<[param |-> p, value |-> v[p], http_ok |-> resp[p] # "fail",
                                  applied |-> applyCameraSetting(resp[p]),
                                  answer |-> resp[p]]>>
                  ELSE <<>>
    IN one("iso") \o one("ev") \o one("iris") \o one("shutter_angle")

\* the camera's answers to the requests of one apply; a request that is not
\* sent has no answer
SetAnswers(w) ==
    {resp \in [{"iso", "ev", "iris", "shutter_angle"} -> SetResponses] :
        \A p \in DOMAIN resp : ~w[p] => resp[p] = "fail"}

StoreAlways(old, new, wanted, resp) == IF wanted THEN new ELSE old

StoreOnSuccess(old, new, wanted, resp) ==
    IF wanted /\ applyCameraSetting(resp) THEN new ELSE old

applyRecommendations(r, cs, enabled, resp) ==
    IF ~Gate(r, enabled)
    THEN [state |-> cs, sent |-> <<>>, any_changes |-> FALSE]
    ELSE LET w == Wanted(r, cs)
         IN [state |-> [cs EXCEPT
                 !.current_iso = StoreOnSuccess(@, r.iso, w.iso, resp.iso),
                 !.current_ev = StoreOnSuccess(@, r.exposure_compensation, w.ev, resp.ev),
                 !.current_aperture = StoreOnSuccess(@, r.aperture, w.iris, resp.iris),
                 !.current_shutter_angle =
                     StoreOnSuccess(@, r.shutter_angle, w.shutter_angle, resp.shutter_angle)],
             sent |-> SentRequests(r, cs, resp),
             any_changes |-> \E p \in {"iso", "ev", "iris", "shutter_angle"} :
                                 w[p] /\ applyCameraSetting(resp[p])]

(***************************************************************************)
(* The RTSP stream as the library presents it to one connection attempt:   *)
(* whether avformat_open_input succeeds, nb_streams, the first stream      *)
(* whose codecpar already says video (direct, -1 if none), the packets     *)
(* av_read_frame returns before it fails, and whether avcodec_open2        *)
(* succeeds.  start_code says the data begins 00 00 00 01 or 00 00 01.     *)
(***************************************************************************)
PacketSizes == {500, 2000, 60000}
Packet == [stream_index : 0..1, size : PacketSizes, start_code : BOOLEAN]
PacketSeqs == UNION {[1..n -> Packet] : n \in 0..MaxPackets}

ConnectInputs ==
    {[open_ok |-> FALSE, nb_streams |-> 0, direct |-> 0 - 1, packets |-> <<>>, decoder_ok |-> FALSE]}
    \cup {i \in [open_ok : {TRUE}, nb_streams : 0..2, direct : (0 - 1)..1,
                 packets : PacketSeqs, decoder_ok : BOOLEAN] : i.direct < i.nb_streams}

SetMin(S) == CHOOSE x \in S : \A y \in S : x <= y

\* before any bootstrap: nothing was given, nothing ran
NoProbe ==
    [input |-> [open_ok |-> FALSE, nb_streams |-> 0, direct |-> 0 - 1, packets |-> <<>>,
                decoder_ok |-> FALSE],
     tried |-> <<>>, by |-> "none", info |-> FALSE]

\* the stream of the first packet, among the first 30, that is larger than
\* 1000 bytes and begins with a NAL start code; -1 if there is none
ScanForNAL(packets, nb_streams, checkRange) ==
    LET hits == {i \in 1..Min(Len(packets), ProbePackets) :
                    /\ checkRange => packets[i].stream_index < nb_streams
                    /\ packets[i].size > NalMinSize
                    /\ packets[i].start_code}
    IN IF hits = {} THEN 0 - 1 ELSE packets[SetMin(hits)].stream_index

\* setupDecoder: the context is allocated, then opened
setupDecoder(decoder_ok) == IF decoder_ok THEN "open" ELSE "alloc"

\* focus.cpp detectVideoStream; vsi is video_stream_index before the call
detectVideoStream(in, cc, vsi) ==
    LET hit == ScanForNAL(in.packets, in.nb_streams, TRUE)
        idx == IF hit >= 0 THEN hit ELSE vsi
    IN IF idx < 0
       THEN [ok |-> FALSE, codec_ctx |-> cc, video_stream_index |-> idx,
             fault |-> IF in.nb_streams = 0 THEN "no_streams" ELSE "no_video",
             tried |-> <<"nal">>, by |-> "none"]
       ELSE [ok |-> in.decoder_ok, codec_ctx |-> setupDecoder(in.decoder_ok),
             video_stream_index |-> idx,
             fault |-> IF in.decoder_ok THEN "none" ELSE "decoder",
             tried |-> <<"nal">>, by |-> IF hit >= 0 THEN "nal" ELSE "stale"]

\* focus.cpp connect; a failed avformat_open_input frees the context and
\* sets the pointer to NULL
connect(in, cc, vsi) ==
    IF ~in.open_ok
    THEN [ok |-> FALSE, format_ctx |-> "null", codec_ctx |-> cc,
          video_stream_index |-> vsi, fault |-> "open", tried |-> <<>>, by |-> "none"]
    ELSE LET d == detectVideoStream(in, cc, vsi)
         IN [ok |-> d.ok, format_ctx |-> "open", codec_ctx |-> d.codec_ctx,
             video_stream_index |-> d.video_stream_index, fault |-> d.fault,
             tried |-> d.tried, by |-> d.by]

\* ZCAMController::detectVideoStream: no range check on the stream index
detectVideoStreamController(in, cc, vsi) ==
    LET hit == ScanForNAL(in.packets, in.nb_streams, FALSE)
        idx == IF hit >= 0 THEN hit ELSE vsi
    IN IF idx < 0
       THEN [ok |-> FALSE, codec_ctx |-> cc, video_stream_index |-> idx,
             fault |-> IF in.nb_streams = 0 THEN "no_streams" ELSE "no_video",
             tried |-> <<"nal">>, by |-> "none"]
       ELSE [ok |-> in.decoder_ok, codec_ctx |-> setupDecoder(in.decoder_ok),
             video_stream_index |-> idx,
             fault |-> IF in.decoder_ok THEN "none"
                       ELSE "decoder",
             tried |-> <<"nal">>, by |-> IF hit >= 0 THEN "nal" ELSE "stale"]

\* ZCAMController::initializeStream
initializeStream(in, cc, vsi) ==
    IF ~in.open_ok
    THEN [ok |-> FALSE, format_ctx |-> "null", codec_ctx |-> cc,
          video_stream_index |-> vsi, fault |-> "open", tried |-> <<>>, by |-> "none"]
    ELSE LET d == detectVideoStreamController(in, cc, vsi)
         IN [ok |-> d.ok, format_ctx |-> "open", codec_ctx |-> d.codec_ctx,
             video_stream_index |-> d.video_stream_index, fault |-> d.fault,
             tried |-> d.tried, by |-> d.by]

\* captureFrame: needs both contexts, a packet of the chosen stream, and a
\* decoder that was opened (avcodec_send_packet fails otherwise)
CanCapture == format_ctx = "open" /\ codec_ctx = "open" /\ video_stream_index >= 0

\* a capture that does not look at the connection
captureFrameUnchecked(decodes) == decodes

captureFrame(decodes) == format_ctx # "null" /\ codec_ctx # "null" /\ CanCapture /\ decodes

(***************************************************************************)
(* focus.cpp: ZCAMExposureMonitor::runMonitoring.                          *)
(***************************************************************************)
\* frames the running controllers see, and the times they see them at
LoopMetrics ==
    {m \in [mean_brightness : {60, 128, 195}, contrast : {10, 50},
            clipped_highlights : {0}, clipped_shadows : {0},
            saturation_level : {0}, exposure_score : {80}] :
        m.contrast = 10 <=> m.mean_brightness = 128}
LoopClock == {600, 700}

InitialCameraState ==
    [current_iso |-> 500, current_ev |-> 0, current_aperture |-> "5.6",
     current_shutter_angle |-> 180, sun_factor |-> 500]

SettingsOf(cs) ==
    [current_iso |-> cs.current_iso, current_ev |-> cs.current_ev,
     current_aperture |-> cs.current_aperture,
     current_shutter_angle |-> cs.current_shutter_angle]

\* a recommendSettings that would also store the ISO it recommends
StoreSunFactorAndISO(cs, sun_factor) ==
    [cs EXCEPT !.sun_factor = sun_factor, !.current_iso = 2500]

\* recommendSettings stores the sun factor it computed in camera_state
StoreSunFactorAndShutter(cs, sun_factor) ==
    [cs EXCEPT !.sun_factor = sun_factor, !.current_shutter_angle = 270]

StoreSunFactor(cs, sun_factor) == [cs EXCEPT !.sun_factor = sun_factor]

TestCameraConnection ==
    /\ prog = "monitor" /\ pc = "start"
    /\ \E api_ok \in BOOLEAN :
           auto_adjust_enabled' = IF api_ok THEN auto_adjust_enabled ELSE FALSE
    /\ pc' = "connect"
    /\ op' = "testCameraConnection"
    /\ UNCHANGED mainVars
    /\ UNCHANGED <<prog, probe, frame, trail, async, keep_running, streamVars, camera_state, settings,
                   changes_applied, analysis_count, adjustment_count, exposure_history,
                   ticks, adviceVars, set_log>>

\* a start-up that queries the camera whatever the API test said
ConnectThenQuery ==
    /\ prog = "monitor" /\ pc = "connect"
    /\ \E in \in ConnectInputs :
           LET r == connect(in, codec_ctx, video_stream_index)
           IN /\ format_ctx' = r.format_ctx
              /\ codec_ctx' = r.codec_ctx
              /\ video_stream_index' = r.video_stream_index
              /\ fault' = r.fault
              /\ connect_ok' = IF r.ok THEN "ok" ELSE "failed"
              /\ pc' = IF ~r.ok THEN "done" ELSE "query"
    /\ frames' = 0
    /\ op' = "connect"
    /\ UNCHANGED mainVars
    /\ UNCHANGED <<prog, probe, frame, trail, async, keep_running, camera_state, settings, ctlVars, adviceVars, set_log>>

Connect ==
    /\ prog = "monitor" /\ pc = "connect"
    /\ \E in \in ConnectInputs :
           LET r == connect(in, codec_ctx, video_stream_index)
           IN /\ format_ctx' = r.format_ctx
              /\ codec_ctx' = r.codec_ctx
              /\ video_stream_index' = r.video_stream_index
              /\ fault' = r.fault
              /\ connect_ok' = IF r.ok THEN "ok" ELSE "failed"
              /\ pc' = IF ~r.ok THEN "done"
                       ELSE IF auto_adjust_enabled THEN "query" ELSE "loop"
    /\ frames' = 0
    /\ op' = "connect"
    /\ UNCHANGED mainVars
    /\ UNCHANGED <<prog, probe, frame, trail, async, keep_running, camera_state, settings, ctlVars, adviceVars, set_log>>

GetCurrentCameraSettings ==
    /\ prog = "monitor" /\ pc = "query"
    /\ \E iso \in QueryISO, ev \in QueryEV, shutter \in QueryShutter, aperture \in QueryAperture :
           camera_state' = getCurrentCameraSettings(camera_state, iso, ev, shutter, aperture)
    /\ pc' = "loop"
    /\ op' = "getCurrentCameraSettings"
    /\ UNCHANGED mainVars
    /\ UNCHANGED <<prog, probe, frame, trail, async, keep_running, streamVars, settings, ctlVars, adviceVars, set_log>>

\* the head of the loop and captureFrame / analyzeExposure
\* an iteration that goes on to the advice whether or not a frame was captured
CaptureFrameBlind ==
    /\ prog = "monitor" /\ pc = "loop" /\ keep_running
    /\ analysis_count < MaxAnalyses
    /\ analysis_count' = analysis_count + 1
    /\ \E decodes \in BOOLEAN, m \in LoopMetrics :
           IF captureFrame(decodes)
           THEN metrics' = m /\ frames' = frames + 1 /\ pc' = "recommend"
           ELSE metrics' = m /\ frames' = frames /\ pc' = "recommend"
    /\ op' = "captureFrame"
    /\ UNCHANGED mainVars
    /\ UNCHANGED <<prog, probe, frame, trail, async, keep_running, format_ctx, codec_ctx, video_stream_index,
                   connect_ok, fault, camera_state, settings, auto_adjust_enabled,
                   changes_applied, adjustment_count, exposure_history, ticks, rec, set_log>>

\* a loop head that does not look at keep_running
CaptureFrameHeedless ==
    /\ prog = "monitor" /\ pc = "loop"
    /\ analysis_count < MaxAnalyses
    /\ analysis_count' = analysis_count + 1
    /\ \E decodes \in BOOLEAN, m \in LoopMetrics :
           IF captureFrame(decodes)
           THEN metrics' = m /\ frames' = frames + 1 /\ pc' = "recommend"
           ELSE metrics' = metrics /\ frames' = frames /\ pc' = "sleep"
    /\ op' = "captureFrame"
    /\ UNCHANGED mainVars
    /\ UNCHANGED <<prog, probe, frame, trail, async, keep_running, format_ctx, codec_ctx, video_stream_index,
                   connect_ok, fault, camera_state, settings, auto_adjust_enabled,
                   changes_applied, adjustment_count, exposure_history, ticks, rec, set_log>>

CaptureFrame ==
    /\ prog = "monitor" /\ pc = "loop" /\ keep_running
    /\ analysis_count < MaxAnalyses
    /\ analysis_count' = analysis_count + 1
    /\ \E decodes \in BOOLEAN, m \in LoopMetrics :
           IF captureFrame(decodes)
           THEN metrics' = m /\ frames' = frames + 1 /\ pc' = "recommend"
           ELSE metrics' = metrics /\ frames' = frames /\ pc' = "sleep"
    /\ op' = "captureFrame"
    /\ UNCHANGED mainVars
    /\ UNCHANGED <<prog, probe, frame, trail, async, keep_running, format_ctx, codec_ctx, video_stream_index,
                   connect_ok, fault, camera_state, settings, auto_adjust_enabled,
                   changes_applied, adjustment_count, exposure_history, ticks, rec, set_log>>

Recommend ==
    /\ prog = "monitor" /\ pc = "recommend"
    /\ \E minute \in LoopClock :
           LET sun_factor == calculateSunAngleFactor(minute)
               r == recommendSettings(metrics, camera_state, sun_factor)
           IN /\ rec' = r
              /\ camera_state' = StoreSunFactor(camera_state, sun_factor)
    /\ pc' = IF auto_adjust_enabled THEN "apply" ELSE "sleep"
    /\ op' = "recommendSettings"
    /\ UNCHANGED mainVars
    /\ UNCHANGED <<prog, probe, frame, trail, async, keep_running, streamVars, settings, ctlVars, metrics, set_log>>

ApplyRecommendations ==
    /\ prog = "monitor" /\ pc = "apply"
    /\ \E resp \in SetAnswers(Wanted(rec, camera_state)) :
           LET a == applyRecommendations(rec, camera_state, auto_adjust_enabled, resp)
           IN /\ camera_state' = a.state
              /\ set_log' = a.sent
              /\ changes_applied' = IF a.any_changes THEN changes_applied + 1
                                    ELSE changes_applied
    /\ pc' = "sleep"
    /\ op' = "applyRecommendations"
    /\ UNCHANGED mainVars
    /\ UNCHANGED <<prog, probe, frame, trail, async, keep_running, streamVars, settings, auto_adjust_enabled,
                   analysis_count, adjustment_count, exposure_history, ticks, adviceVars>>

\* the end of the iteration: logAnalysis and the 15 s wait
Sleep ==
    /\ prog = "monitor" /\ pc = "sleep"
    /\ pc' = "loop"
    /\ set_log' = <<>>
    /\ op' = "sleep"
    /\ UNCHANGED mainVars
    /\ UNCHANGED <<prog, probe, frame, trail, async, keep_running, streamVars, camera_state, settings, ctlVars,
                   adviceVars>>

StopMonitoring ==
    /\ prog = "monitor" /\ pc = "loop" /\ ~keep_running
    /\ pc' = "done"
    /\ op' = "stop"
    /\ UNCHANGED mainVars
    /\ UNCHANGED <<prog, probe, frame, trail, async, keep_running, streamVars, camera_state, settings, ctlVars,
                   adviceVars, set_log>>

\* SIGINT / SIGTERM
signal_handler ==
    /\ prog \in {"monitor", "production"} /\ pc # "done" /\ keep_running
    /\ keep_running' = FALSE
    /\ UNCHANGED mainVars
    /\ UNCHANGED <<prog, probe, frame, trail, async, pc, streamVars, camera_state, settings, ctlVars,
                   adviceVars, set_log, op>>

(***************************************************************************)
(* production.cpp: ZCAMProductionController.  The class calls              *)
(* initializeStream, readCurrentSettings, captureFrame and applySetting    *)
(* without defining them; the stream functions are those of                *)
(* ZCAMController, the two HTTP functions follow the commented-out bodies  *)
(* ZCAMController keeps of them.                                           *)
(***************************************************************************)
prod_target_brightness == 140
prod_brightness_tolerance == 20
min_iris == "8"
max_iris == "16"

\* std::stod of the f-stops in use, in tenths
stod(iris) ==
    CASE iris = "8" -> 80 [] iris = "10" -> 100 [] iris = "11" -> 110
      [] iris = "14" -> 140 [] iris = "16" -> 160

\* applySetting as the production controller needs it: the set request
\* succeeded and the camera answered code 0
applySetting(resp) == resp = "code0"

ProdMetrics == [brightness : {60, 140, 200}, exposure_score : {50, 80}]

IsoUp(iso) ==
    IF iso < 2500 THEN 2500
    ELSE IF iso < 6400 THEN 6400
    ELSE IF iso < 12800 THEN 12800
    ELSE IF iso < 25600 THEN 25600
    ELSE iso

IsoDown(iso) ==
    IF iso > 6400 THEN iso \div 2
    ELSE IF iso > 2500 THEN 1000
    ELSE IF iso > 500 THEN 400
    ELSE iso

IrisCloser(iris) ==
    IF stod(iris) < 110 THEN "11"
    ELSE IF stod(iris) < 140 THEN "14"
    ELSE max_iris

\* the requests adjustExposure makes for frame m at settings st, as pairs of
\* parameter and value; at most one of them
adjustRequest(m, st) ==
    LET brightness_error == m.brightness - prod_target_brightness
        needs_adjustment == Abs(brightness_error) > prod_brightness_tolerance
    IN IF ~needs_adjustment /\ m.exposure_score >= 70 THEN <<>>
       ELSE IF brightness_error < 0 - prod_brightness_tolerance
       THEN IF IsoUp(st.iso) # st.iso THEN <<[param |-> "iso", value |-> IsoUp(st.iso)]>>
            ELSE IF st.iris # min_iris THEN <<[param |-> "iris", value |-> min_iris]>>
            ELSE <<>>
       ELSE IF brightness_error > prod_brightness_tolerance
       THEN IF st.iso > 400
            THEN IF IsoDown(st.iso) # st.iso
                 THEN <<[param |-> "iso", value |-> IsoDown(st.iso)]>>
                 ELSE <<>>
            ELSE IF st.iris # max_iris /\ stod(st.iris) < stod(max_iris)
            THEN <<[param |-> "iris", value |-> IrisCloser(st.iris)]>>
            ELSE <<>>
       ELSE <<>>

\* an adjustExposure that stores the value it asked for whatever the answer
adjustExposureEager(m, st, resp) ==
    LET req == adjustRequest(m, st)
        changed == req # <<>> /\ applySetting(resp)
    IN [settings |-> IF req = <<>> THEN st
                     ELSE IF req[1].param = "iso" THEN [st EXCEPT !.iso = req[1].value]
                     ELSE [st EXCEPT !.iris = req[1].value],
        sent |-> IF req = <<>> \/ resp = "unsent" THEN <<>>
                 ELSE <<[param |-> req[1].param, value |-> req[1].value,
                         http_ok |-> resp # "fail", applied |-> applySetting(resp)]>>,
        changed |-> changed]

\* an adjustExposure that leaves the camera alone once three adjustments were made
adjustExposureSettling(m, st, resp) ==
    LET req == IF adjustment_count >= 3 THEN <<>> ELSE adjustRequest(m, st)
        changed == req # <<>> /\ applySetting(resp)
    IN [settings |-> IF ~changed THEN st
                     ELSE IF req[1].param = "iso" THEN [st EXCEPT !.iso = req[1].value]
                     ELSE [st EXCEPT !.iris = req[1].value],
        sent |-> IF req = <<>> \/ resp = "unsent" THEN <<>>
                 ELSE <<[param |-> req[1].param, value |-> req[1].value,
                         http_ok |-> resp # "fail", applied |-> applySetting(resp)]>>,
        changed |-> changed]

\* adjustExposure: resp is the camera's answer to the request, "unsent" when
\* applySetting sends nothing
adjustExposure(m, st, resp) ==
    LET req == adjustRequest(m, st)
        changed == req # <<>> /\ applySetting(resp)
    IN [settings |-> IF ~changed THEN st
                     ELSE IF req[1].param = "iso" THEN [st EXCEPT !.iso = req[1].value]
                     ELSE [st EXCEPT !.iris = req[1].value],
        sent |-> IF req = <<>> \/ resp = "unsent" THEN <<>>
                 ELSE <<[param |-> req[1].param, value |-> req[1].value,
                         http_ok |-> resp # "fail", applied |-> applySetting(resp)]>>,
        changed |-> changed]

\* readCurrentSettings: both answers are needed for the run to go on
ProdQueryISO == Answers({400, 500, 12800, 25600}, 0)
ProdQueryIris == Answers({"10"}, "")

readCurrentSettings(st, iso, iris) ==
    [st EXCEPT !.iso = IF iso.ok THEN iso.value ELSE @,
               !.iris = IF iris.ok THEN iris.value ELSE @]

ProdInitializeStream ==
    /\ prog = "production" /\ pc = "start"
    /\ \E in \in ConnectInputs :
           LET r == initializeStream(in, codec_ctx, video_stream_index)
           IN /\ format_ctx' = r.format_ctx
              /\ codec_ctx' = r.codec_ctx
              /\ video_stream_index' = r.video_stream_index
              /\ fault' = r.fault
              /\ connect_ok' = IF r.ok THEN "ok" ELSE "failed"
              /\ pc' = IF r.ok THEN "read" ELSE "done"
    /\ frames' = 0
    /\ op' = "initializeStream"
    /\ UNCHANGED mainVars
    /\ UNCHANGED <<prog, probe, frame, trail, async, keep_running, camera_state, settings, ctlVars, adviceVars, set_log>>

ProdReadCurrentSettings ==
    /\ prog = "production" /\ pc = "read"
    /\ \E iso \in ProdQueryISO, iris \in ProdQueryIris :
           /\ settings' = readCurrentSettings(settings, iso, iris)
           /\ pc' = IF iso.ok /\ iris.ok THEN "loop" ELSE "done"
    /\ op' = "readCurrentSettings"
    /\ UNCHANGED mainVars
    /\ UNCHANGED <<prog, probe, frame, trail, async, keep_running, streamVars, camera_state, ctlVars, adviceVars, set_log>>

\* the head of the loop: isOperatingHours, then captureFrame / analyzeExposure;
\* outside operating hours the iteration is the 30 min sleep alone
ProdCaptureFrame ==
    /\ prog = "production" /\ pc = "loop" /\ keep_running
    /\ ticks < MaxTicks
    /\ ticks' = ticks + 1
    /\ \E operating \in BOOLEAN, decodes \in BOOLEAN, m \in ProdMetrics :
           IF ~operating
           THEN metrics' = metrics /\ frames' = frames /\ pc' = "sleep"
           ELSE IF captureFrame(decodes)
           THEN metrics' = m /\ frames' = frames + 1 /\ pc' = "adjust"
           ELSE metrics' = metrics /\ frames' = frames /\ pc' = "sleep"
    /\ op' = "captureFrame"
    /\ UNCHANGED mainVars
    /\ UNCHANGED <<prog, probe, frame, trail, async, keep_running, format_ctx, codec_ctx, video_stream_index,
                   connect_ok, fault, camera_state, settings, auto_adjust_enabled,
                   changes_applied, analysis_count, adjustment_count, exposure_history,
                   rec, set_log>>

\* an adjustExposure step that counts every call as an adjustment
ProdAdjustExposureCounting ==
    /\ prog = "production" /\ pc = "adjust"
    /\ \E resp \in SetResponses :
           LET a == adjustExposure(metrics, settings, resp)
           IN /\ settings' = a.settings
              /\ set_log' = a.sent
              /\ adjustment_count' = adjustment_count + 1
    /\ pc' = "sleep"
    /\ op' = "adjustExposure"
    /\ UNCHANGED mainVars
    /\ UNCHANGED <<prog, probe, frame, trail, async, keep_running, streamVars, camera_state, auto_adjust_enabled,
                   changes_applied, analysis_count, exposure_history, ticks, adviceVars>>

ProdAdjustExposure ==
    /\ prog = "production" /\ pc = "adjust"
    /\ \E resp \in SetResponses :
           LET a == adjustExposure(metrics, settings, resp)
           IN /\ settings' = a.settings
              /\ set_log' = a.sent
              /\ adjustment_count' = IF a.changed THEN adjustment_count + 1
                                     ELSE adjustment_count
    /\ pc' = "sleep"
    /\ op' = "adjustExposure"
    /\ UNCHANGED mainVars
    /\ UNCHANGED <<prog, probe, frame, trail, async, keep_running, streamVars, camera_state, auto_adjust_enabled,
                   changes_applied, analysis_count, exposure_history, ticks, adviceVars>>

ProdSleep ==
    /\ prog = "production" /\ pc = "sleep"
    /\ pc' = "loop"
    /\ set_log' = <<>>
    /\ op' = "sleep"
    /\ UNCHANGED mainVars
    /\ UNCHANGED <<prog, probe, frame, trail, async, keep_running, streamVars, camera_state, settings, ctlVars,
                   adviceVars>>

ProdStop ==
    /\ prog = "production" /\ pc = "loop" /\ ~keep_running
    /\ pc' = "done"
    /\ op' = "stop"
    /\ UNCHANGED mainVars
    /\ UNCHANGED <<prog, probe, frame, trail, async, keep_running, streamVars, camera_state, settings, ctlVars,
                   adviceVars, set_log>>

(***************************************************************************)
(* ZCAMExposureController (the surf controller): suggestCameraSettings,    *)
(* updateZCAMSettings and runAutoAdjustment.  Its current settings are the *)
(* four current_* members; its suggestions carry no confidence.            *)
(***************************************************************************)
iso_values == <<100, 125, 160, 200, 250, 320, 400, 500, 640, 800, 1000, 1250, 1600,
                2000, 2500, 3200, 4000, 5000, 6400, 8000, 10000, 12800>>

\* the f-stops of aperture_values with std::stod of each, in tenths
aperture_values ==
    <<[s |-> "1.4", f |-> 14], [s |-> "1.6", f |-> 16], [s |-> "1.8", f |-> 18],
      [s |-> "2.0", f |-> 20], [s |-> "2.2", f |-> 22], [s |-> "2.5", f |-> 25],
      [s |-> "2.8", f |-> 28], [s |-> "3.2", f |-> 32], [s |-> "3.5", f |-> 35],
      [s |-> "4.0", f |-> 40], [s |-> "4.5", f |-> 45], [s |-> "5.0", f |-> 50],
      [s |-> "5.6", f |-> 56], [s |-> "6.3", f |-> 63], [s |-> "7.1", f |-> 71],
      [s |-> "8.0", f |-> 80], [s |-> "9.0", f |-> 90], [s |-> "10", f |-> 100],
      [s |-> "11", f |-> 110], [s |-> "13", f |-> 130], [s |-> "14", f |-> 140],
      [s |-> "16", f |-> 160]>>

\* getSunAngleFactor: as calculateSunAngleFactor, with a floor of 0.0 by day
getSunAngleFactor(minute) ==
    IF minute >= 360 /\ minute <= 1320
    THEN Max(0, ((5400 - Abs(minute - 780) * 12) * 1000) \div 5400)
    ELSE 100

\* std::lower_bound, then the nearer neighbour (the upper one on a tie)
findClosestISO(target_iso) ==
    LET above == {i \in 1..Len(iso_values) : iso_values[i] >= target_iso}
    IN IF above = {} THEN iso_values[Len(iso_values)]
       ELSE IF SetMin(above) = 1 THEN iso_values[1]
       ELSE LET upper == iso_values[SetMin(above)]
                lower == iso_values[SetMin(above) - 1]
            IN IF target_iso - lower < upper - target_iso THEN lower ELSE upper

\* the first entry at the least distance from target_f (in tenths)
findClosestAperture(target_f) ==
    LET dist(i) == Abs(aperture_values[i].f - target_f)
        best == SetMin({i \in 1..Len(aperture_values) :
                           \A j \in 1..Len(aperture_values) : dist(i) <= dist(j)})
    IN aperture_values[best].s

stodAperture(a) ==
    LET i == CHOOSE k \in 1..Len(aperture_values) : aperture_values[k].s = a
    IN aperture_values[i].f

suggestISO(m, cs) ==
    IF m.mean_brightness < target_brightness - brightness_tolerance
    THEN LET target_iso == (cs.current_iso * 16) \div 10
         IN IF target_iso >= 2500 THEN 2500
            ELSE IF target_iso >= 500
            THEN IF Abs(target_iso - 500) < Abs(target_iso - 2500) THEN 500
                 ELSE findClosestISO(target_iso)
            ELSE findClosestISO(target_iso)
    ELSE IF m.mean_brightness > target_brightness + brightness_tolerance
    THEN LET target_iso == (cs.current_iso * 10) \div 14
         IN IF target_iso <= 500 THEN 500 ELSE findClosestISO(target_iso)
    ELSE cs.current_iso

suggestEV(m, cs) ==
    IF m.clipped_highlights > 5 THEN Max(cs.current_ev - 5, 0 - 30)
    ELSE IF m.clipped_shadows > 10 /\ m.mean_brightness < 100 THEN Min(cs.current_ev + 3, 30)
    ELSE cs.current_ev

suggestAperture(cs, sun_factor) ==
    LET current_f == stodAperture(cs.current_aperture)
    IN IF sun_factor > 800 THEN findClosestAperture(Min(80, current_f + 10))
       ELSE IF sun_factor < 300 THEN findClosestAperture(Max(28, current_f - 10))
       ELSE cs.current_aperture

suggestCameraSettings(m, cs, sun_factor) ==
    [iso |-> suggestISO(m, cs),
     exposure_compensation |-> suggestEV(m, cs),
     aperture |-> suggestAperture(cs, sun_factor),
     shutter_angle |-> IF sun_factor > 600 THEN 180 ELSE 270]

\* std::abs(new - current) > 0.1 on the doubles: a difference of one tenth
\* compares greater only at the ends of the EV range
EVDiffers(new, cur) == Abs(new - cur) > 1 \/ (Abs(new - cur) = 1 /\ Abs(new) = 30)

needs_adjustment(m) ==
    \/ Abs(m.mean_brightness - target_brightness) > brightness_tolerance
    \/ m.clipped_highlights > 5
    \/ m.clipped_shadows > 10

SurfWanted(r, cs) ==
    [iso |-> r.iso # cs.current_iso,
     ev |-> EVDiffers(r.exposure_compensation, cs.current_ev),
     iris |-> r.aperture # cs.current_aperture,
     shutter_angle |-> r.shutter_angle # cs.current_shutter_angle]

SettingsChanged(r, cs) ==
    \E p \in {"iso", "ev", "iris", "shutter_angle"} : SurfWanted(r, cs)[p]

\* a set request took effect when the answer contains "code":0
codeZero(resp) == resp = "code0"

StoreOnCodeZero(old, new, wanted, resp) == IF wanted /\ codeZero(resp) THEN new ELSE old

\* updateZCAMSettings; the aperture request is sent as "aperture", its
\* failure does not count against success
updateZCAMSettings(r, cs, resp) ==
    LET w == SurfWanted(r, cs)
        v == RequestedValue(r)
        one(p) == IF w[p] THEN <<[param |-> p, value |-> v[p], http_ok |-> resp[p] # "fail",
                                  applied |-> codeZero(resp[p])]>>
                  ELSE <<>>
    IN [state |-> [cs EXCEPT
            !.current_iso = StoreOnCodeZero(@, r.iso, w.iso, resp.iso),
            !.current_ev = StoreOnCodeZero(@, r.exposure_compensation, w.ev, resp.ev),
            !.current_aperture = StoreOnCodeZero(@, r.aperture, w.iris, resp.iris),
            !.current_shutter_angle =
                StoreOnCodeZero(@, r.shutter_angle, w.shutter_angle, resp.shutter_angle)],
        sent |-> one("iso") \o one("ev") \o one("iris") \o one("shutter_angle"),
        success |-> \A p \in {"iso", "ev", "shutter_angle"} : w[p] => codeZero(resp[p])]

\* the constructor: testCameraConnection, or the exception that ends the run
SurfConstruct ==
    /\ prog = "surf" /\ pc = "start"
    /\ \E info_ok \in BOOLEAN : pc' = IF info_ok THEN "loop" ELSE "done"
    /\ op' = "testCameraConnection"
    /\ UNCHANGED mainVars
    /\ UNCHANGED <<prog, probe, frame, trail, async, keep_running, streamVars, camera_state, settings, ctlVars,
                   adviceVars, set_log>>

\* captureFrame and analyzeExposure; after an empty frame the iteration is
\* the 5 s sleep alone
SurfCaptureFrame ==
    /\ prog = "surf" /\ pc = "loop"
    /\ ticks < MaxTicks
    /\ ticks' = ticks + 1
    /\ \E empty \in BOOLEAN, m \in LoopMetrics :
           IF empty
           THEN metrics' = metrics /\ frames' = frames /\ pc' = "sleep"
           ELSE /\ metrics' = m /\ frames' = frames + 1
                /\ pc' = IF needs_adjustment(m) THEN "suggest" ELSE "sleep"
    /\ set_log' = <<>>
    /\ op' = "captureFrame"
    /\ UNCHANGED mainVars
    /\ UNCHANGED <<prog, probe, frame, trail, async, keep_running, format_ctx, codec_ctx, video_stream_index,
                   connect_ok, fault, camera_state, settings, auto_adjust_enabled,
                   changes_applied, analysis_count, adjustment_count, exposure_history,
                   rec>>

SurfSuggest ==
    /\ prog = "surf" /\ pc = "suggest"
    /\ \E minute \in LoopClock :
           LET r == suggestCameraSettings(metrics, camera_state, getSunAngleFactor(minute))
           IN /\ rec' = r
              /\ pc' = IF SettingsChanged(r, camera_state) THEN "update" ELSE "sleep"
    /\ op' = "suggestCameraSettings"
    /\ UNCHANGED mainVars
    /\ UNCHANGED <<prog, probe, frame, trail, async, keep_running, streamVars, camera_state, settings, ctlVars,
                   metrics, set_log>>

SurfUpdate ==
    /\ prog = "surf" /\ pc = "update"
    /\ \E resp \in SetAnswers(SurfWanted(rec, camera_state)) :
           LET u == updateZCAMSettings(rec, camera_state, resp)
           IN /\ camera_state' = u.state
              /\ set_log' = u.sent
              /\ exposure_history' = IF u.success THEN exposure_history + 1
                                     ELSE exposure_history
    /\ pc' = "sleep"
    /\ op' = "updateZCAMSettings"
    /\ UNCHANGED mainVars
    /\ UNCHANGED <<prog, probe, frame, trail, async, keep_running, streamVars, settings, auto_adjust_enabled,
                   changes_applied, analysis_count, adjustment_count, ticks, adviceVars>>

SurfSleep ==
    /\ prog = "surf" /\ pc = "sleep"
    /\ pc' = "loop"
    /\ op' = "sleep"
    /\ UNCHANGED mainVars
    /\ UNCHANGED <<prog, probe, frame, trail, async, keep_running, streamVars, camera_state, settings, ctlVars,
                   adviceVars, set_log>>

(***************************************************************************)
(* ffmpeg_cap.cpp: connect, findVideoStreamManually and the main that      *)
(* captures one frame.                                                     *)
(***************************************************************************)
\* the stream the last resort's loop stops at: the lowest index of those
\* over the threshold
FirstOver(big) == SetMin(big)

RECURSIVE StreamBytes(_, _, _)
\* stream_sizes[i] after the probe: the bytes of the packets of stream i
StreamBytes(packets, i, nb_streams) ==
    IF packets = <<>> THEN 0
    ELSE (IF Head(packets).stream_index = i /\ Head(packets).stream_index < nb_streams
          THEN Head(packets).size ELSE 0) + StreamBytes(Tail(packets), i, nb_streams)

\* a findVideoStreamManually that scans the packets before it looks at the
\* codec parameters
findVideoStreamManuallyScanFirst(in, cc, vsi) ==
    LET hit == ScanForNAL(in.packets, in.nb_streams, TRUE)
    IN IF hit >= 0
       THEN [ok |-> in.decoder_ok, codec_ctx |-> setupDecoder(in.decoder_ok),
             video_stream_index |-> IF in.decoder_ok THEN hit ELSE 0 - 1,
             fault |-> IF in.decoder_ok THEN "none" ELSE "decoder",
             tried |-> <<"nal">>, by |-> IF in.decoder_ok THEN "nal" ELSE "none"]
       ELSE [ok |-> in.direct >= 0, codec_ctx |-> cc, video_stream_index |-> in.direct,
             fault |-> IF in.direct >= 0 THEN "none" ELSE "no_video",
             tried |-> <<"nal", "direct">>,
             by |-> IF in.direct >= 0 THEN "direct" ELSE "none"]

\* findVideoStreamManually: codecpar first, then the NAL scan over at most
\* 30 packets with the decoder set up at once, then the first stream that
\* received more than 50 KB in those packets
findVideoStreamManually(in, cc, vsi) ==
    IF in.direct >= 0
    THEN [ok |-> TRUE, codec_ctx |-> cc, video_stream_index |-> in.direct, fault |-> "none",
          tried |-> <<"direct">>, by |-> "direct"]
    ELSE LET read == SubSeq(in.packets, 1, Min(Len(in.packets), ProbePackets))
             hit == ScanForNAL(in.packets, in.nb_streams, TRUE)
             idx == IF vsi = 0 - 1 THEN hit ELSE vsi
             big == {i \in 0..(in.nb_streams - 1) :
                        StreamBytes(read, i, in.nb_streams) > FallbackBytes}
         IN IF idx >= 0
            THEN IF in.decoder_ok
                 THEN [ok |-> TRUE, codec_ctx |-> setupDecoder(TRUE),
                       video_stream_index |-> idx, fault |-> "none",
                       tried |-> <<"direct", "nal">>,
                       by |-> IF vsi = 0 - 1 THEN "nal" ELSE "stale"]
                 ELSE [ok |-> FALSE, codec_ctx |-> setupDecoder(FALSE),
                       video_stream_index |-> 0 - 1, fault |-> "decoder",
                       tried |-> <<"direct", "nal">>, by |-> "none"]
            ELSE IF big # {}
            THEN [ok |-> TRUE, codec_ctx |-> cc,
                  video_stream_index |-> FirstOver(big), fault |-> "none",
                  tried |-> <<"direct", "nal", "bytes">>, by |-> "bytes"]
            ELSE [ok |-> FALSE, codec_ctx |-> cc, video_stream_index |-> idx,
                  fault |-> "no_video",
                  tried |-> <<"direct", "nal", "bytes">>, by |-> "none"]

\* ffmpeg_cap.cpp connect
connectCapture(in, cc, vsi) ==
    IF ~in.open_ok
    THEN [ok |-> FALSE, format_ctx |-> "null", codec_ctx |-> cc,
          video_stream_index |-> vsi, fault |-> "open", tried |-> <<>>, by |-> "none"]
    ELSE IF in.nb_streams = 0
    THEN [ok |-> FALSE, format_ctx |-> "open", codec_ctx |-> cc,
          video_stream_index |-> vsi, fault |-> "no_streams", tried |-> <<>>, by |-> "none"]
    ELSE LET f == findVideoStreamManually(in, cc, vsi)
         IN [ok |-> f.ok /\ f.video_stream_index # 0 - 1, format_ctx |-> "open",
             codec_ctx |-> f.codec_ctx, video_stream_index |-> f.video_stream_index,
             fault |-> f.fault, tried |-> f.tried, by |-> f.by]

CapConnect ==
    /\ prog = "capture" /\ pc = "start"
    /\ \E in \in ConnectInputs :
           LET r == connectCapture(in, codec_ctx, video_stream_index)
           IN /\ format_ctx' = r.format_ctx
              /\ codec_ctx' = r.codec_ctx
              /\ video_stream_index' = r.video_stream_index
              /\ fault' = r.fault
              /\ connect_ok' = IF r.ok THEN "ok" ELSE "failed"
              /\ pc' = IF r.ok THEN "capture" ELSE "exit"
    /\ frames' = 0
    /\ op' = "connect"
    /\ UNCHANGED <<prog, probe, frame, trail, async, keep_running, camera_state, settings, ctlVars, adviceVars,
                   set_log, mainVars>>

\* captureOneFrame and the analysis of the frame, which is only printed
CapCaptureOneFrame ==
    /\ prog = "capture" /\ pc = "capture"
    /\ \E decodes \in BOOLEAN, m \in LoopMetrics :
           IF captureFrame(decodes)
           THEN metrics' = m /\ frames' = frames + 1
           ELSE metrics' = metrics /\ frames' = frames
    /\ pc' = "exit"
    /\ op' = "captureOneFrame"
    /\ UNCHANGED <<prog, probe, frame, trail, async, keep_running, format_ctx, codec_ctx, video_stream_index,
                   connect_ok, fault, camera_state, settings, ctlVars, rec, set_log,
                   mainVars>>

\* the destructor's cleanup as main returns
CapCleanup ==
    /\ prog = "capture" /\ pc = "exit"
    /\ format_ctx' = "null" /\ codec_ctx' = "null" /\ video_stream_index' = 0 - 1
    /\ pc' = "done"
    /\ op' = "cleanup"
    /\ UNCHANGED <<prog, probe, frame, trail, async, keep_running, connect_ok, fault, frames, camera_state, settings,
                   ctlVars, adviceVars, set_log, mainVars>>

(***************************************************************************)
(* main.cpp: the left and the right ZCAMController each run in a thread of *)
(* their own, the service loop runs in the main thread.  The FFmpeg        *)
(* contexts and video_stream_index of the controller are file-scope        *)
(* objects, one of each for both controllers; the logger is a singleton.   *)
(* No operation of ZCAMController changes settings (applySetting sends     *)
(* nothing and reports failure), so one record stands for both objects.    *)
(***************************************************************************)
\* what one tick's connection attempt of a controller meets: at most one
\* probe packet, of stream 0 or 1, in a stream that reports at most one stream
ControllerInputs ==
    {i \in ConnectInputs : /\ Len(i.packets) <= 1 /\ i.direct = 0 - 1 /\ i.nb_streams <= 1
                           /\ \A k \in 1..Len(i.packets) : i.packets[k].size < FallbackBytes}
ControllerMetrics == {m \in ProdMetrics : m.exposure_score = 80 /\ m.brightness < 200}

Touch(t, objects) == [g \in SharedObjects |-> IF g \in objects THEN touched[g] \cup {t}
                                              ELSE touched[g]]

\* streams counts the RTSP connections a controller opened and has not
\* closed; ManyStreams stands for that many or more
ManyStreams == 2

\* singleRun up to initializeStream; nothing on its way closes the stream of
\* the tick before (cleanup is called by the destructor alone)
CtlInitializeStream(t) ==
    /\ prog = "main" /\ controllers[t].pc = "init"
    /\ \E operating \in BOOLEAN, in \in ControllerInputs :
           IF ~operating
           THEN /\ controllers' = [controllers EXCEPT ![t].pc = "sleep"]
                /\ UNCHANGED <<streamVars, touched>>
           ELSE LET r == initializeStream(in, codec_ctx, video_stream_index)
                IN /\ format_ctx' = r.format_ctx
                   /\ codec_ctx' = r.codec_ctx
                   /\ video_stream_index' = r.video_stream_index
                   /\ fault' = r.fault
                   /\ connect_ok' = IF r.ok THEN "ok" ELSE "failed"
                   /\ frames' = 0
                   /\ controllers' = [controllers EXCEPT
                          ![t].pc = IF r.ok THEN "capture" ELSE "sleep",
                          ![t].last_init = IF r.ok THEN "ok" ELSE "failed",
                          ![t].streams = IF in.open_ok THEN Min(@ + 1, ManyStreams) ELSE @]
                   /\ touched' = Touch(t, IF in.open_ok
                                          THEN {"format_ctx", "codec_ctx", "video_stream_index"}
                                          ELSE {"format_ctx"})
    /\ op' = "initializeStream"
    /\ UNCHANGED <<prog, probe, frame, trail, async, pc, keep_running, camera_state, settings, ctlVars, adviceVars,
                   set_log, service_pc>>

\* readCurrentSettings, which asks the camera nothing, then captureFrame
CtlCaptureFrame(t) ==
    /\ prog = "main" /\ controllers[t].pc = "capture"
    /\ \E decodes \in BOOLEAN, m \in ControllerMetrics :
           IF captureFrame(decodes)
           THEN /\ frames' = frames + 1
                /\ controllers' = [controllers EXCEPT ![t].pc = "adjust", ![t].metrics = m]
           ELSE /\ frames' = frames
                /\ controllers' = [controllers EXCEPT ![t].pc = "report"]
    /\ touched' = Touch(t, {"format_ctx", "codec_ctx", "video_stream_index"})
    /\ op' = "captureFrame"
    /\ UNCHANGED <<prog, probe, frame, trail, async, pc, keep_running, format_ctx, codec_ctx, video_stream_index,
                   connect_ok, fault, camera_state, settings, ctlVars, adviceVars,
                   set_log, service_pc>>

CtlAdjustExposure(t) ==
    /\ prog = "main" /\ controllers[t].pc = "adjust"
    /\ LET a == adjustExposure(controllers[t].metrics, settings, "unsent")
       IN settings' = a.settings /\ set_log' = a.sent
    /\ controllers' = [controllers EXCEPT ![t].pc = "report"]
    /\ op' = "adjustExposure"
    /\ UNCHANGED <<prog, probe, frame, trail, async, pc, keep_running, streamVars, camera_state, ctlVars, adviceVars,
                   service_pc, touched>>

\* the report to the server, which someNetwork logs
CtlReport(t) ==
    /\ prog = "main" /\ controllers[t].pc = "report"
    /\ controllers' = [controllers EXCEPT ![t].pc = "sleep"]
    /\ touched' = Touch(t, {"logger"})
    /\ op' = "https_request"
    /\ UNCHANGED <<prog, probe, frame, trail, async, pc, keep_running, streamVars, camera_state, settings, ctlVars,
                   adviceVars, set_log, service_pc>>

\* run: the 60 s between two calls of singleRun, then while (!stop)
CtlSleep(t) ==
    /\ prog = "main" /\ controllers[t].pc = "sleep"
    /\ controllers' = [controllers EXCEPT
           ![t].pc = IF controllers[t].stop THEN "stopped" ELSE "init",
           ![t].metrics = NoMetrics]
    /\ set_log' = <<>>
    /\ op' = "sleep"
    /\ UNCHANGED <<prog, probe, frame, trail, async, pc, keep_running, streamVars, camera_state, settings, ctlVars,
                   adviceVars, service_pc, touched>>

\* someService::run: post_status and the log line, then the request loop
ServiceRun ==
    /\ prog = "main" /\ service_pc = "start"
    /\ service_pc' = "running"
    /\ touched' = Touch("service", {"logger"})
    /\ op' = "service"
    /\ UNCHANGED <<prog, probe, frame, trail, async, pc, keep_running, streamVars, camera_state, settings, ctlVars,
                   adviceVars, set_log, controllers>>

\* what https_get returns to the service loop: it never sets timeout, the
\* status is 200 unless the server answered otherwise, str is the body ("" if
\* the call failed or the body is empty) and api the "api" member of the
\* body's JSON ("" if it has none)
ServiceResponses ==
    {r \in [timeout : {FALSE}, status : {200, 500}, str : {"", "json"},
            api : {"", "keepalive", "shutdown"}] :
        /\ r.str = "" => r.api = ""
        /\ r.status = 500 => r.api # "keepalive"}

\* the request a response carries, as the loop reads it
apiOf(r) == IF r.status = 200 /\ r.api # "" THEN r.api ELSE ""

\* one pass of the loop of someService::run: where the loop is afterwards
serviceStep(r) ==
    LET api == apiOf(r)
    IN IF r.timeout THEN "running"
       ELSE IF api = "keepalive" THEN "running"
       ELSE IF r.status = 200 /\ r.str # "" THEN "running"
       ELSE IF api = "shutdown" THEN "returned"
       ELSE "running"

\* https_get and the handling of its response; an exception thrown on the
\* way (a body that is not JSON) is caught inside the loop.  op tells a pass
\* that handled a shutdown request from the others
ServicePoll ==
    /\ prog = "main" /\ service_pc = "running"
    /\ \E r \in ServiceResponses, throws \in BOOLEAN :
           IF throws
           THEN service_pc' = "running" /\ op' = "https_get"
           ELSE /\ service_pc' = serviceStep(r)
                /\ op' = IF apiOf(r) = "shutdown" THEN "shutdown" ELSE "https_get"
    /\ UNCHANGED <<prog, probe, frame, trail, async, pc, keep_running, streamVars, camera_state,
                   settings, ctlVars, adviceVars, set_log, controllers, touched>>

(***************************************************************************)
(* someNetwork::https_async_get.  The function arms a 60 s timer, starts   *)
(* the chain resolve, connect, handshake, (write,) read on an io_context   *)
(* that a thread of its own runs, and returns the future of the promise.   *)
(* set_value counts the calls of promise->set_value; the second call       *)
(* throws std::future_error out of the handler and so out of the thread,   *)
(* which ends the process.  The thread object is a local of the function.  *)
(***************************************************************************)

\* promise->set_value(response) inside a handler of the io_context
setValue(a, v) ==
    IF a.set_value = 0
    THEN [a EXCEPT !.set_value = 1, !.value = v]
    ELSE [a EXCEPT !.set_value = 2, !.process = "terminated"]

\* ioc->stop() after a set_value that did not throw
stopAfter(a) == IF a.process = "running" THEN [a EXCEPT !.ioc = "stopped", !.step = "done"] ELSE a

\* the handler of timeout_timer->async_wait, run with an ec that is not
\* operation_aborted
timeoutHandler(a) ==
    setValue([a EXCEPT !.timer = "fired", !.timer_cancelled = TRUE, !.socket = "closed"],
             "timeout")

\* the completion handler of the pending step of the chain
stepHandler(a, outcome) ==
    IF a.step \in {"resolve", "connect"}
    THEN IF outcome = "error"
         THEN stopAfter(setValue(a, "empty"))
         ELSE [a EXCEPT !.step = IF a.step = "resolve" THEN "connect" ELSE "handshake",
                        !.socket = IF a.step = "connect" THEN "open" ELSE @]
    ELSE IF a.step = "handshake"
    THEN IF outcome = "error" THEN stopAfter(setValue(a, "empty"))
         ELSE IF outcome = "write_throws" THEN [a EXCEPT !.process = "terminated"]
         ELSE [a EXCEPT !.step = "read"]
    ELSE LET c == [a EXCEPT !.timer = IF @ = "armed" THEN "cancelled" ELSE @]
         IN IF outcome = "error" THEN stopAfter(setValue(c, "empty"))
            ELSE IF c.timer_cancelled THEN stopAfter(setValue(c, "empty"))
            ELSE stopAfter(setValue(c, IF outcome = "unreadable" THEN "str" ELSE "json"))

\* what the pending step can complete with: an operation on the socket the
\* timeout handler closed is aborted; write_throws is http::write failing
\* after the handshake, unreadable a body that is not JSON
OutcomesOf(a) ==
    IF a.socket = "closed" /\ a.step \in {"handshake", "read"} THEN {"error"}
    ELSE IF a.step = "handshake" THEN {"ok", "error", "write_throws"}
    ELSE IF a.step = "read" THEN {"ok", "error", "unreadable"}
    ELSE {"ok", "error"}

\* the body of https_async_get up to the start of the thread
AsyncCall ==
    /\ prog = "async_get" /\ pc = "start"
    /\ async' = [async EXCEPT !.step = "resolve", !.timer = "armed", !.socket = "new",
                              !.ioc = "running"]
    /\ pc' = "spawned"
    /\ op' = "https_async_get"
    /\ UNCHANGED <<prog, probe, frame, trail, keep_running, streamVars, camera_state, settings, ctlVars,
                   adviceVars, set_log, mainVars>>

\* return future: the locals go, work_thread among them, and the destructor
\* of a joinable std::thread calls std::terminate
AsyncReturn ==
    /\ prog = "async_get" /\ pc = "spawned" /\ async.process = "running"
    /\ async' = [async EXCEPT !.returned = TRUE, !.process = "terminated"]
    /\ pc' = "done"
    /\ op' = "return"
    /\ UNCHANGED <<prog, probe, frame, trail, keep_running, streamVars, camera_state, settings, ctlVars,
                   adviceVars, set_log, mainVars>>

AsyncRunning ==
    /\ prog = "async_get" /\ pc = "spawned"
    /\ async.process = "running" /\ async.ioc = "running"

AsyncTimeout ==
    /\ AsyncRunning /\ async.timer = "armed"
    /\ async' = timeoutHandler(async)
    /\ op' = "timeout"
    /\ UNCHANGED <<prog, probe, frame, trail, pc, keep_running, streamVars, camera_state, settings,
                   ctlVars, adviceVars, set_log, mainVars>>

AsyncStep ==
    /\ AsyncRunning /\ async.step # "done"
    /\ \E outcome \in OutcomesOf(async) : async' = stepHandler(async, outcome)
    /\ op' = async.step
    /\ UNCHANGED <<prog, probe, frame, trail, pc, keep_running, streamVars, camera_state, settings,
                   ctlVars, adviceVars, set_log, mainVars>>

\* the programs of the repository and, as one more, a call of https_async_get
Programs == {"monitor", "production", "surf", "capture", "main", "async_get"}

\* what the constructors leave, apart from the settings
Constructed ==
    /\ keep_running = TRUE
    /\ format_ctx = "null" /\ codec_ctx = "null" /\ video_stream_index = 0 - 1
    /\ settings = [iso |-> 500, iris |-> "10"]
    /\ auto_adjust_enabled = TRUE
    /\ changes_applied = 0
    /\ analysis_count = 0
    /\ adjustment_count = 0
    /\ exposure_history = 0
    /\ ticks = 0
    /\ rec = NoRec
    /\ connect_ok = "none" /\ fault = "none" /\ frames = 0
    /\ set_log = <<>>
    /\ controllers = [t \in CameraThreads |->
                          [pc |-> "init", metrics |-> NoMetrics, last_init |-> "none",
                           stop |-> FALSE, streams |-> 0]]
    /\ service_pc = "start"
    /\ touched = [g \in SharedObjects |-> {}]
    /\ op = "init"

Init ==
    /\ prog \in Programs
    /\ pc = "start"
    /\ Constructed
    /\ probe = NoProbe
    /\ frame = <<>>
    /\ trail = <<>>
    /\ async = NotCalled
    /\ camera_state = InitialCameraState
    /\ metrics = NoMetrics

vars == <<prog, probe, frame, trail, async, pc, keep_running, streamVars, camera_state, settings, ctlVars,
          adviceVars, set_log, mainVars, op>>

Next ==
    \/ TestCameraConnection
    \/ Connect
    \/ GetCurrentCameraSettings
    \/ CaptureFrame
    \/ Recommend
    \/ ApplyRecommendations
    \/ Sleep
    \/ StopMonitoring
    \/ signal_handler
    \/ ProdInitializeStream
    \/ ProdReadCurrentSettings
    \/ ProdCaptureFrame
    \/ ProdAdjustExposure
    \/ ProdSleep
    \/ ProdStop
    \/ SurfConstruct
    \/ SurfCaptureFrame
    \/ SurfSuggest
    \/ SurfUpdate
    \/ SurfSleep
    \/ CapConnect
    \/ CapCaptureOneFrame
    \/ CapCleanup
    \/ \E t \in CameraThreads : CtlInitializeStream(t)
    \/ \E t \in CameraThreads : CtlCaptureFrame(t)
    \/ \E t \in CameraThreads : CtlAdjustExposure(t)
    \/ \E t \in CameraThreads : CtlReport(t)
    \/ \E t \in CameraThreads : CtlSleep(t)
    \/ ServiceRun
    \/ ServicePoll
    \/ AsyncCall
    \/ AsyncReturn
    \/ AsyncTimeout
    \/ AsyncStep

Spec == Init /\ [][Next]_vars

(***************************************************************************)
(* The advisors on their own: recommendSettings is called once on metrics  *)
(* and current settings drawn from the samples, at a sampled time of day.  *)
(***************************************************************************)
\* a shutter angle of 0 is what part_013 stores when the camera answers "Auto"
AdvisorStates ==
    [current_iso : {400, 500, 1000, 2500, 5000}, current_ev : {0 - 96, 0, 96},
     current_aperture : {"5.6", "2.8"}, current_shutter_angle : {0, 180, 270},
     sun_factor : {500}]

AdvisorInit ==
    /\ prog = "advisor"
    /\ pc = "ready"
    /\ Constructed
    /\ probe = NoProbe
    /\ frame = <<>>
    /\ trail = <<>>
    /\ async = NotCalled
    /\ metrics \in Metrics
    /\ camera_state \in AdvisorStates

AdviseMonitor ==
    /\ prog = "advisor" /\ pc = "ready"
    /\ \E minute \in ClockSamples :
           LET sun_factor == calculateSunAngleFactor(minute)
           IN /\ rec' = recommendSettings(metrics, camera_state, sun_factor)
              /\ camera_state' = StoreSunFactor(camera_state, sun_factor)
    /\ pc' = "returned"
    /\ op' = "recommendSettings"
    /\ UNCHANGED mainVars
    /\ UNCHANGED <<prog, probe, frame, trail, async, keep_running, streamVars, settings, ctlVars, metrics, set_log>>

AdviseFFmpeg ==
    /\ prog = "advisor" /\ pc = "ready"
    /\ \E minute \in ClockSamples :
           LET sun_factor == calculateSunAngleFactor(minute)
           IN /\ rec' = recommendSettingsFFmpeg(metrics, camera_state, sun_factor)
              /\ camera_state' = StoreSunFactor(camera_state, sun_factor)
    /\ pc' = "returned"
    /\ op' = "recommendSettingsFFmpeg"
    /\ UNCHANGED mainVars
    /\ UNCHANGED <<prog, probe, frame, trail, async, keep_running, streamVars, settings, ctlVars, metrics, set_log>>

AdvisorNext == AdviseMonitor \/ AdviseFFmpeg

SpecAdvisor == AdvisorInit /\ [][AdvisorNext]_vars

(***************************************************************************)
(* The stream bootstraps on their own: each is called once on a freshly    *)
(* constructed object, over a stream drawn from the samples.  The long     *)
(* streams carry their only NAL-prefixed packet as packet 30 or packet 31. *)
(***************************************************************************)
LongPackets(n) ==
    [k \in 1..n |-> IF k < n THEN [stream_index |-> 1, size |-> 500, start_code |-> FALSE]
                    ELSE [stream_index |-> 0, size |-> 2000, start_code |-> TRUE]]

\* stream 0 receives one large packet, stream 1 two, none NAL-prefixed
UnevenPackets ==
    [k \in 1..3 |-> [stream_index |-> IF k = 1 THEN 0 ELSE 1, size |-> 60000,
                     start_code |-> FALSE]]

BootstrapInputs ==
    ConnectInputs
    \cup {[open_ok |-> TRUE, nb_streams |-> 2, direct |-> 0 - 1, packets |-> LongPackets(n),
           decoder_ok |-> TRUE] : n \in {ProbePackets, ProbePackets + 1}}
    \cup {[open_ok |-> TRUE, nb_streams |-> 2, direct |-> 0 - 1, packets |-> UnevenPackets,
           decoder_ok |-> TRUE]}

\* ffmpeg.cpp initializeStream: avformat_find_stream_info, then the first
\* stream whose codecpar says video, then the decoder of its codec_id.
\* info is that stream after the analysis, -1 if there is none, -2 if the
\* analysis fails
InfoResults(in) == (0 - 2)..(in.nb_streams - 1)

initializeStreamFFmpeg(in, cc, vsi, info) ==
    IF ~in.open_ok
    THEN [ok |-> FALSE, format_ctx |-> "null", codec_ctx |-> cc,
          video_stream_index |-> vsi, fault |-> "open", tried |-> <<>>, by |-> "none"]
    ELSE IF info = 0 - 2
    THEN [ok |-> FALSE, format_ctx |-> "open", codec_ctx |-> cc,
          video_stream_index |-> vsi, fault |-> "stream_info",
          tried |-> <<"stream_info">>, by |-> "none"]
    ELSE LET idx == IF info >= 0 THEN info ELSE vsi
         IN IF idx = 0 - 1
            THEN [ok |-> FALSE, format_ctx |-> "open", codec_ctx |-> cc,
                  video_stream_index |-> idx, fault |-> "no_video",
                  tried |-> <<"stream_info">>, by |-> "none"]
            ELSE [ok |-> in.decoder_ok, format_ctx |-> "open",
                  codec_ctx |-> setupDecoder(in.decoder_ok), video_stream_index |-> idx,
                  fault |-> IF in.decoder_ok THEN "none" ELSE "decoder",
                  tried |-> <<"stream_info">>,
                  by |-> IF info >= 0 THEN "stream_info" ELSE "stale"]

\* part_011 ZCAM::initStream with ZCAM::detectVideoStream: the scan has no
\* range check, and the H.264 decoder is set up in place
initStream(in, cc, vsi) ==
    IF ~in.open_ok
    THEN [ok |-> FALSE, format_ctx |-> "null", codec_ctx |-> cc,
          video_stream_index |-> vsi, fault |-> "open", tried |-> <<>>, by |-> "none"]
    ELSE LET hit == ScanForNAL(in.packets, in.nb_streams, FALSE)
             idx == IF hit >= 0 THEN hit ELSE vsi
         IN IF idx < 0
            THEN [ok |-> FALSE, format_ctx |-> "open", codec_ctx |-> cc,
                  video_stream_index |-> idx, fault |-> "no_video",
                  tried |-> <<"nal">>, by |-> "none"]
            ELSE [ok |-> in.decoder_ok, format_ctx |-> "open",
                  codec_ctx |-> setupDecoder(in.decoder_ok), video_stream_index |-> idx,
                  fault |-> IF in.decoder_ok THEN "none" ELSE "decoder",
                  tried |-> <<"nal">>, by |-> IF hit >= 0 THEN "nal" ELSE "stale"]

BootstrapInit ==
    /\ prog = "bootstrap"
    /\ pc = "start"
    /\ Constructed
    /\ probe \in [input : BootstrapInputs, tried : {<<>>}, by : {"none"}, info : {FALSE}]
    /\ frame = <<>>
    /\ trail = <<>>
    /\ async = NotCalled
    /\ camera_state = InitialCameraState
    /\ metrics = NoMetrics

\* the object after a bootstrap returned r
Bootstrapped(r, name, info) ==
    /\ format_ctx' = r.format_ctx
    /\ codec_ctx' = r.codec_ctx
    /\ video_stream_index' = r.video_stream_index
    /\ fault' = r.fault
    /\ connect_ok' = IF r.ok THEN "ok" ELSE "failed"
    /\ probe' = [probe EXCEPT !.tried = r.tried, !.by = r.by, !.info = info]
    /\ pc' = "done"
    /\ op' = name
    /\ UNCHANGED mainVars
    /\ UNCHANGED <<prog, frame, trail, async, keep_running, frames, camera_state, settings, ctlVars,
                   adviceVars, set_log>>

BootConnect ==
    /\ prog = "bootstrap" /\ pc = "start"
    /\ Bootstrapped(connect(probe.input, codec_ctx, video_stream_index), "connect", FALSE)

BootInitStream ==
    /\ prog = "bootstrap" /\ pc = "start"
    /\ Bootstrapped(initStream(probe.input, codec_ctx, video_stream_index),
                    "initStream", FALSE)

BootInitializeStreamFFmpeg ==
    /\ prog = "bootstrap" /\ pc = "start"
    /\ \E info \in InfoResults(probe.input) :
           Bootstrapped(initializeStreamFFmpeg(probe.input, codec_ctx, video_stream_index,
                                               info),
                        "initializeStreamFFmpeg", probe.input.open_ok)

BootConnectCapture ==
    /\ prog = "bootstrap" /\ pc = "start"
    /\ Bootstrapped(connectCapture(probe.input, codec_ctx, video_stream_index),
                    "connectCapture", FALSE)

BootInitializeStream ==
    /\ prog = "bootstrap" /\ pc = "start"
    /\ Bootstrapped(initializeStream(probe.input, codec_ctx, video_stream_index),
                    "initializeStream", FALSE)

BootstrapNext ==
    \/ BootConnect
    \/ BootInitStream
    \/ BootInitializeStreamFFmpeg
    \/ BootConnectCapture
    \/ BootInitializeStream

SpecBootstrap == BootstrapInit /\ [][BootstrapNext]_vars

(***************************************************************************)
(* The exposure analyzers on their own: each is called once on a frame of  *)
(* gray pixels (r = g = b) drawn from the samples.  Brightness, contrast,  *)
(* percentages and scores are in hundredths, rounded down.                 *)
(***************************************************************************)
PixelSamples == {0, 5, 128, 250, 255}
Frames == UNION {[1..n -> PixelSamples] : n \in 1..MaxPixels}

\* the gray levels v for which 0.299 * v + 0.587 * v + 0.114 * v, summed in
\* double precision, falls just below v
LossyGrays ==
    {1, 2, 4, 8, 11, 13, 16, 22, 26, 27, 32, 39, 44, 51, 52, 54, 57, 59, 61, 64, 78, 81,
     88, 91, 95, 101, 102, 104, 108, 114, 115, 118, 122, 127, 128, 143, 149, 156, 157,
     162, 169, 175, 176, 182, 183, 190, 195, 202, 203, 204, 208, 209, 216, 223, 225,
     228, 230, 235, 236, 239, 241, 244, 249, 251, 254}

\* static_cast<uint8_t>(0.299 * r + 0.587 * g + 0.114 * b) for r = g = b = v:
\* the conversion truncates
grayscale(v) == IF v \in LossyGrays THEN v - 1 ELSE v

gray_data(f) == [k \in DOMAIN f |-> grayscale(f[k])]

RECURSIVE SumOf(_)
SumOf(s) == IF s = <<>> THEN 0 ELSE Head(s) + SumOf(Tail(s))

CountOf(g, S) == Cardinality({k \in DOMAIN g : g[k] \in S})

RECURSIVE SqrtBetween(_, _, _)
SqrtBetween(n, lo, hi) ==
    IF lo >= hi THEN lo
    ELSE LET mid == (lo + hi + 1) \div 2
         IN IF mid * mid <= n THEN SqrtBetween(n, mid, hi) ELSE SqrtBetween(n, lo, mid - 1)

\* std::sqrt on hundredths: n is in ten-thousandths
Sqrt(n) == SqrtBetween(n, 0, 25600)

\* sum / total_pixels, and count * 100.0 / total_pixels
MeanOf(g) == (SumOf(g) * 100) \div Len(g)
PercentOf(count, total) == (count * 10000) \div total

\* sqrt(max(0, sum_squared / n - mean * mean))
ContrastOf(g) ==
    LET squares == [k \in DOMAIN g |-> g[k] * g[k]]
        sum_squared == SumOf(squares)
        variance == (sum_squared \div Len(g)) * 10000
                    + ((sum_squared % Len(g)) * 10000) \div Len(g)
                    - MeanOf(g) * MeanOf(g)
    IN Sqrt(Max(0, variance))

MaxOf(g) == CHOOSE x \in {g[k] : k \in DOMAIN g} : \A k \in DOMAIN g : g[k] <= x

\* *max_element - *find_if(val > floor): the first pixel above the floor, not
\* the darkest one; none when no pixel is above the floor
DynamicRange(g, floor) ==
    LET above == {k \in DOMAIN g : g[k] > floor}
    IN IF above = {} THEN {} ELSE {(MaxOf(g) - g[SetMin(above)]) * 100}

Clamp(score) == Max(0, Min(10000, score))

\* focus.cpp calculateExposureScore before its last line
focusScore(m) ==
    10000
    - Min((Abs(m.mean_brightness - target_brightness * 100) * 3) \div 2, 4000)
    - m.clipped_highlights * 3
    - (m.clipped_shadows * 5) \div 2
    - (IF m.contrast < 2500 THEN ((2500 - m.contrast) * 4) \div 5
       ELSE IF m.contrast > 7500 THEN ((m.contrast - 7500) * 2) \div 5 ELSE 0)
    - (IF m.dynamic_range < 18000 THEN ((18000 - m.dynamic_range) * 3) \div 10 ELSE 0)
    - Abs(m.shadows_percent - 2000) \div 5
    - Abs(m.midtones_percent - 6000) \div 10
    - Abs(m.highlights_percent - 2000) \div 5
    - (IF m.saturation_level > 1000 THEN ((m.saturation_level - 1000) * 3) \div 2 ELSE 0)

\* a calculateExposureScore that returns the sum as it is
calculateExposureScoreUnclamped(m) == focusScore(m)

calculateExposureScore(m) == Clamp(focusScore(m))

\* focus.cpp analyzeExposureAndFocus on the full frame; dynamic_range keeps
\* its initializer 0.0 when no pixel is above 5
analyzeExposureAndFocus(f) ==
    LET g == gray_data(f)
        n == Len(g)
        dr == DynamicRange(g, 5)
        m == [mean_brightness |-> MeanOf(g),
              contrast |-> ContrastOf(g),
              clipped_highlights |-> PercentOf(CountOf(g, 250..255), n),
              clipped_shadows |-> PercentOf(CountOf(g, 0..5), n),
              shadows_percent |-> PercentOf(CountOf(g, 0..84), n),
              midtones_percent |-> PercentOf(CountOf(g, 85..169), n),
              highlights_percent |-> PercentOf(CountOf(g, 170..255), n),
              dynamic_range |-> IF dr = {} THEN 0 ELSE SetMin(dr),
              saturation_level |-> Max(PercentOf(CountOf(g, 240..255), n),
                                       PercentOf(CountOf(g, 0..15), n))]
    IN m @@ [exposure_score |-> calculateExposureScore(m)]

\* calculateExposureScore of ffmpeg_cap.cpp and part_014
calculateExposureScoreFFmpeg(m) ==
    Clamp(10000
          - Min(Abs(m.mean_brightness - target_brightness * 100) * 2, 5000)
          - m.clipped_highlights * 2
          - m.clipped_shadows * 2
          - (IF m.contrast < 3000 THEN 3000 - m.contrast
             ELSE IF m.contrast > 8000 THEN (m.contrast - 8000) \div 2 ELSE 0)
          - (IF m.dynamic_range < 20000 THEN (20000 - m.dynamic_range) \div 5 ELSE 0))

\* the values an ExposureMetrics member without initializer may hold
Indeterminate == {0 - 1000000000, 0, 25500, 1000000000}

\* analyzeExposure of ffmpeg_cap.cpp and part_014; dynamic_range is never
\* assigned when no pixel is above 0, and garbage is what it holds then
analyzeExposure(f, garbage) ==
    LET g == gray_data(f)
        n == Len(g)
        dr == DynamicRange(g, 0)
        m == [mean_brightness |-> MeanOf(g),
              contrast |-> ContrastOf(g),
              clipped_highlights |-> PercentOf(CountOf(g, 250..255), n),
              clipped_shadows |-> PercentOf(CountOf(g, 0..5), n),
              dynamic_range |-> IF dr = {} THEN garbage ELSE SetMin(dr)]
    IN m @@ [exposure_score |-> calculateExposureScoreFFmpeg(m)]

\* ZCAMController::analyzeExposure of part_013, against the target of
\* CameraSettings
analyzeExposureController(f) ==
    LET g == gray_data(f)
        n == Len(g)
        m == [brightness |-> MeanOf(g),
              contrast |-> ContrastOf(g),
              highlights_clipped |-> PercentOf(CountOf(g, 250..255), n),
              shadows_clipped |-> PercentOf(CountOf(g, 0..5), n)]
        score == 10000
                 - Min((Abs(m.brightness - prod_target_brightness * 100) * 3) \div 2, 5000)
                 - m.highlights_clipped * 3
                 - m.shadows_clipped * 2
                 - (IF m.contrast < 1500 THEN 1500 - m.contrast ELSE 0)
    IN m @@ [exposure_score |-> Clamp(score)]

AnalyzerInit ==
    /\ prog = "analyzer"
    /\ pc = "start"
    /\ Constructed
    /\ probe = NoProbe
    /\ frame \in Frames
    /\ trail = <<>>
    /\ async = NotCalled
    /\ camera_state = InitialCameraState
    /\ metrics = NoMetrics

Analyzed(m, name) ==
    /\ metrics' = m
    /\ pc' = "done"
    /\ op' = name
    /\ UNCHANGED mainVars
    /\ UNCHANGED <<prog, probe, frame, trail, async, keep_running, streamVars, camera_state, settings,
                   ctlVars, rec, set_log>>

AnalyzeFocus ==
    /\ prog = "analyzer" /\ pc = "start"
    /\ Analyzed(analyzeExposureAndFocus(frame), "analyzeExposureAndFocus")

AnalyzeFFmpeg ==
    /\ prog = "analyzer" /\ pc = "start"
    /\ \E garbage \in Indeterminate :
           Analyzed(analyzeExposure(frame, garbage), "analyzeExposure")

AnalyzeController ==
    /\ prog = "analyzer" /\ pc = "start"
    /\ Analyzed(analyzeExposureController(frame), "analyzeExposureController")

AnalyzerNext == AnalyzeFocus \/ AnalyzeFFmpeg \/ AnalyzeController

SpecAnalyzer == AnalyzerInit /\ [][AnalyzerNext]_vars

(***************************************************************************)
(* The advisors re-invoked: the body of the loop of runMonitoring after a  *)
(* frame was captured (recommendSettings, then applyRecommendations), or   *)
(* adjustExposure of the production controller, is run MaxRounds times on  *)
(* frames drawn anew each time.  The camera accepts a set request or the   *)
(* HTTP call fails.  trail keeps, for each round, the frame, the sun       *)
(* factor, the values asked for, the parameters whose set request was sent *)
(* and of those the ones that were not stored, and the current settings    *)
(* before and after.                                                       *)
(***************************************************************************)
RepeatAnswers(w) == {resp \in SetAnswers(w) : \A p \in DOMAIN resp : resp[p] \in {"fail", "code0"}}

SentParams(log) == {log[i].param : i \in 1..Len(log)}
FailedParams(log) == {log[i].param : i \in {k \in 1..Len(log) : ~log[k].applied}}

RepeatInit ==
    /\ prog = "repeat"
    /\ pc = "loop"
    /\ Constructed
    /\ probe = NoProbe
    /\ frame = <<>>
    /\ trail = <<>>
    /\ async = NotCalled
    /\ camera_state = InitialCameraState
    /\ metrics = NoMetrics

RepeatRecommend ==
    /\ prog = "repeat" /\ Len(trail) < MaxRounds
    /\ trail = <<>> \/ op = "applyRecommendations"
    /\ \E m \in LoopMetrics, minute \in LoopClock :
           LET sun_factor == calculateSunAngleFactor(minute)
               r == recommendSettings(m, camera_state, sun_factor)
               cs == StoreSunFactor(camera_state, sun_factor)
           IN \E resp \in RepeatAnswers(Wanted(r, cs)) :
                  LET a == applyRecommendations(r, cs, auto_adjust_enabled, resp)
                  IN /\ metrics' = m
                     /\ rec' = r
                     /\ camera_state' = a.state
                     /\ set_log' = a.sent
                     /\ changes_applied' = IF a.any_changes THEN changes_applied + 1
                                           ELSE changes_applied
                     /\ trail' = Append(trail,
                            [metrics |-> m, sun_factor |-> sun_factor,
                             asked |-> RequestedValue(r),
                             sent |-> SentParams(a.sent), failed |-> FailedParams(a.sent),
                             before |-> SettingsOf(camera_state),
                             after |-> SettingsOf(a.state)])
    /\ analysis_count' = analysis_count + 1
    /\ op' = "applyRecommendations"
    /\ UNCHANGED mainVars
    /\ UNCHANGED <<prog, probe, frame, async, pc, keep_running, streamVars, settings,
                   auto_adjust_enabled, adjustment_count, exposure_history, ticks>>

RepeatAdjust ==
    /\ prog = "repeat" /\ Len(trail) < MaxRounds
    /\ trail = <<>> \/ op = "adjustExposure"
    /\ \E m \in ProdMetrics, resp \in {"fail", "code0"} :
           LET a == adjustExposure(m, settings, resp)
               req == adjustRequest(m, settings)
           IN /\ metrics' = m
              /\ settings' = a.settings
              /\ set_log' = a.sent
              /\ adjustment_count' = IF a.changed THEN adjustment_count + 1
                                     ELSE adjustment_count
              /\ trail' = Append(trail,
                     [metrics |-> m, sun_factor |-> 0,
                      asked |-> IF req = <<>> THEN settings
                                ELSE IF req[1].param = "iso"
                                THEN [settings EXCEPT !.iso = req[1].value]
                                ELSE [settings EXCEPT !.iris = req[1].value],
                      sent |-> SentParams(a.sent), failed |-> FailedParams(a.sent),
                      before |-> settings, after |-> a.settings])
    /\ ticks' = ticks + 1
    /\ op' = "adjustExposure"
    /\ UNCHANGED mainVars
    /\ UNCHANGED <<prog, probe, frame, async, pc, keep_running, streamVars, camera_state,
                   auto_adjust_enabled, changes_applied, analysis_count, exposure_history,
                   rec>>

RepeatNext == RepeatRecommend \/ RepeatAdjust

SpecRepeat == RepeatInit /\ [][RepeatNext]_vars

(***************************************************************************)
(* Properties.                                                             *)
(***************************************************************************)
Advisors == {"recommendSettings", "recommendSettingsFFmpeg"}

AdviceOf(name, m, cs, sun_factor) ==
    IF name = "recommendSettings" THEN recommendSettings(m, cs, sun_factor)
    ELSE recommendSettingsFFmpeg(m, cs, sun_factor)

\* the in-memory current settings of the running program
Current(program, cs, st) ==
    IF program = "production" THEN [iso |-> st.iso, iris |-> st.iris]
    ELSE [iso |-> cs.current_iso, ev |-> cs.current_ev, iris |-> cs.current_aperture,
          shutter_angle |-> cs.current_shutter_angle]

ApplyOps == {"applyRecommendations", "adjustExposure", "updateZCAMSettings"}
QueryOps == {"getCurrentCameraSettings", "readCurrentSettings"}

\* the requests of this iteration that set parameter p to value v
Requests(log, p, v) == {i \in 1..Len(log) : log[i].param = p /\ log[i].value = v}

\* C1: in a step that applies settings (applyRecommendations, adjustExposure,
\* updateZCAMSettings) the in-memory value of a parameter changes only to a
\* value that a set request of this step asked for and whose HTTP call
\* succeeded and was accepted; a parameter whose set call failed keeps its value.
C1_ChangeOnlyBySucceededSet ==
    [][op' \in ApplyOps =>
        \A p \in DOMAIN Current(prog, camera_state, settings) :
            LET old == Current(prog, camera_state, settings)[p]
                new == Current(prog, camera_state', settings')[p]
            IN /\ new # old =>
                    \E i \in Requests(set_log', p, new) :
                        set_log'[i].http_ok /\ set_log'[i].applied
               /\ (\A i \in 1..Len(set_log') :
                       set_log'[i].param = p => ~set_log'[i].http_ok) => new = old]_vars

\* a failed set request for ISO next to an accepted one for another parameter
C1_Witness ==
    /\ op \in ApplyOps
    /\ \E i, j \in 1..Len(set_log) :
          /\ set_log[i].param = "iso" /\ ~set_log[i].http_ok
          /\ Current(prog, camera_state, settings).iso # set_log[i].value
          /\ set_log[j].param # "iso" /\ set_log[j].applied
          /\ Current(prog, camera_state, settings)[set_log[j].param] = set_log[j].value

C10_OnlyApplyOrQuery ==
    [][Current(prog, camera_state', settings') # Current(prog, camera_state, settings) =>
        \/ op' \in ApplyOps /\ set_log' # <<>>
        \/ op' \in QueryOps]_vars

\* an accepted set request has replaced the ISO the controller started with
C10_Witness ==
    /\ op = "applyRecommendations"
    /\ \E i \in 1..Len(set_log) :
          /\ set_log[i].param = "iso" /\ set_log[i].applied
          /\ set_log[i].value # 500 /\ camera_state.current_iso = set_log[i].value

Dark(m) == m.mean_brightness - target_brightness < 0 - brightness_tolerance
ProdDark(m) == m.brightness - prod_target_brightness < 0 - prod_brightness_tolerance

ISOExhausted(m, cs) ==
    /\ Abs(m.mean_brightness - target_brightness) > brightness_tolerance
    /\ recommendISO(m, cs).val = cs.current_iso

\* C5 as stated: a recommendation of recommendSettings changes the aperture
\* only when the ISO is at the end of its range in the direction the
\* brightness error asks for, and adjustExposure requests an iris change
\* only at ISO 25600 (too dark) or at ISO 400 or less (too bright).
C5_ApertureAfterISO ==
    /\ (op = "recommendSettings" /\ rec.aperture # camera_state.current_aperture) =>
           ISOExhausted(metrics, camera_state)
    /\ (op = "adjustExposure" /\ \E i \in 1..Len(set_log) : set_log[i].param = "iris") =>
           (settings.iso >= 25600 \/ settings.iso <= 400)

\* C6: after a connection attempt that ran into a bootstrap failure (the
\* stream did not open, it reported no streams, no video stream was
\* identified, the decoder did not open) connect has reported failure, the
\* connection it leaves cannot deliver a frame, and no frame has been
\* captured since; this lasts until the next connection attempt.
C6_BootstrapFailureTerminal ==
    fault # "none" => connect_ok = "failed" /\ ~CanCapture /\ frames = 0

\* ffmpeg_cap.cpp: the decoder did not open, main has gone to its exit
C6_Witness ==
    /\ prog = "capture" /\ op = "connect"
    /\ fault = "decoder" /\ codec_ctx = "alloc" /\ video_stream_index = 0 - 1
    /\ connect_ok = "failed" /\ pc = "exit"

Fresh == format_ctx = "null" /\ codec_ctx = "null" /\ video_stream_index = 0 - 1

\* C7 as stated: after a failed connection attempt the loop is still
\* running, and the attempt of the next tick starts from a fresh connection.
C7_RetryFromFresh ==
    /\ (prog = "monitor" /\ connect_ok = "failed") => pc # "done"
    /\ prog = "main" =>
           \A t \in CameraThreads :
               (controllers[t].pc = "init" /\ controllers[t].last_init = "failed") => Fresh

\* C8 as stated: no object is accessed by more than one thread.
C8_NoSharedMutableState == \A g \in SharedObjects : Cardinality(touched[g]) <= 1

AdviceOps == {"recommendSettings", "suggestCameraSettings"}
StartOps == {"connect", "getCurrentCameraSettings", "readCurrentSettings",
             "testCameraConnection"}

\* C11: in the loops of runMonitoring, runProductionMode, runAutoAdjustment
\* and ZCAMController::run (a) a frame is captured only over a connection
\* that was set up with success, (b) the advice is computed only right after
\* a frame was captured and analysed, (c) set requests are sent only by the
\* apply step that follows the capture and advice of the same iteration, and
\* (d) every iteration ends with a sleep: a capture is the first of the run
\* or follows a sleep, and a controller thread comes back to initializeStream
\* only from its sleep.  runMonitoring and runProductionMode connect once,
\* before the loop; ZCAMController::singleRun connects in every iteration.
C11_CycleOrder ==
    [][/\ (frames' > frames /\ prog \in {"monitor", "production", "main"}) =>
             /\ op' = "captureFrame" /\ connect_ok = "ok" /\ frames' = frames + 1
       /\ (pc \in {"recommend", "suggest"} /\ pc' # pc) =>
             /\ op' \in AdviceOps
             /\ op = "captureFrame" /\ frames > 0 /\ metrics # NoMetrics
       /\ (set_log' # set_log /\ set_log' # <<>>) =>
             /\ op' \in ApplyOps
             /\ op \in AdviceOps \cup {"captureFrame"}
             /\ frames > 0 /\ metrics # NoMetrics
       /\ (analysis_count' # analysis_count \/ ticks' # ticks) =>
             /\ op' = "captureFrame"
             /\ op \in StartOps \cup {"sleep"}
       /\ \A t \in CameraThreads :
              (prog = "main" /\ controllers'[t].pc = "init" /\ controllers[t].pc # "init") =>
                  controllers[t].pc = "sleep"]_vars

\* second iteration of the monitor: connect, capture, advice, apply, sleep,
\* capture, advice, and now set requests have gone out
C11_Witness ==
    /\ prog = "monitor" /\ op = "applyRecommendations"
    /\ analysis_count = 2 /\ frames = 2
    /\ set_log # <<>>

\* a packet the scan accepts: larger than 1000 bytes, beginning 00 00 00 01
\* or 00 00 01
NALPrefixed(p) == p.size > NalMinSize /\ p.start_code

\* vsi is the stream of a NAL-prefixed packet among the first 30 of the
\* stream, and no NAL-prefixed packet of an existing stream came before it
ChosenByNAL(in, vsi) ==
    \E k \in 1..Len(in.packets) :
        /\ k <= ProbePackets
        /\ NALPrefixed(in.packets[k])
        /\ in.packets[k].stream_index = vsi
        /\ \A j \in 1..(k - 1) : ~(/\ NALPrefixed(in.packets[j])
                                   /\ in.packets[j].stream_index < in.nb_streams)

ScanBootstraps == {"connect", "initStream", "initializeStreamFFmpeg"}

\* C12: a bootstrap by focus.cpp connect, ffmpeg.cpp initializeStream or
\* ZCAM::initStream never runs avformat_find_stream_info, and when it
\* succeeds the stream it chose is the stream of the first packet, among the
\* first 30 read, that is larger than 1000 bytes and begins with an H.264
\* Annex-B start code.
C12_VideoOnlyByNALScan ==
    (prog = "bootstrap" /\ pc = "done" /\ op \in ScanBootstraps) =>
        /\ ~probe.info
        /\ probe.tried \in {<<>>, <<"nal">>}
        /\ connect_ok = "ok" =>
               /\ probe.by = "nal"
               /\ ChosenByNAL(probe.input, video_stream_index)

\* the packets a probe reads, and the streams that received the most bytes
\* in them
ProbeRead(in) == SubSeq(in.packets, 1, Min(Len(in.packets), ProbePackets))

LargestStreams(in) ==
    {i \in 0..(in.nb_streams - 1) :
        \A j \in 0..(in.nb_streams - 1) :
            StreamBytes(ProbeRead(in), i, in.nb_streams)
                >= StreamBytes(ProbeRead(in), j, in.nb_streams)}

\* the probe reached its packet scan, read bytes of an existing stream, and
\* met no NAL-prefixed packet of an existing stream in the first 30
NoNALFound(in) ==
    /\ in.open_ok /\ in.nb_streams > 0 /\ in.direct = 0 - 1
    /\ \E i \in 0..(in.nb_streams - 1) : StreamBytes(ProbeRead(in), i, in.nb_streams) > 0
    /\ \A k \in 1..Len(ProbeRead(in)) :
           ~(NALPrefixed(in.packets[k]) /\ in.packets[k].stream_index < in.nb_streams)

FallbackBootstraps == {"connect", "connectCapture"}

\* C13: when the packet scan of focus.cpp connect or of findVideoStreamManually
\* meets no NAL-prefixed packet within 30 packets, the bootstrap succeeds by
\* the byte-count heuristic and the stream it selects is one that received
\* the largest total number of bytes.
C13_FallbackToLargestStream ==
    (/\ prog = "bootstrap" /\ pc = "done" /\ op \in FallbackBootstraps
     /\ NoNALFound(probe.input)) =>
        /\ connect_ok = "ok"
        /\ probe.by = "bytes"
        /\ video_stream_index \in LargestStreams(probe.input)

ProbeOrder == <<"direct", "nal", "bytes">>

\* C14: findVideoStreamManually runs its strategies in the order direct
\* codec-parameter check, NAL scan, byte-count guess: the NAL scan runs only
\* when no stream's codec parameters said video, the byte-count guess only
\* when in addition the scan met no NAL-prefixed packet, and a stream that
\* was chosen was chosen by the last strategy that ran.
C14_FallbackOrder ==
    (prog = "bootstrap" /\ pc = "done" /\ op = "connectCapture") =>
        /\ \E n \in 0..Len(ProbeOrder) : probe.tried = SubSeq(ProbeOrder, 1, n)
        /\ Len(probe.tried) >= 2 => probe.input.direct = 0 - 1
        /\ Len(probe.tried) >= 3 =>
               \A k \in 1..Len(ProbeRead(probe.input)) :
                   ~(/\ NALPrefixed(probe.input.packets[k])
                     /\ probe.input.packets[k].stream_index < probe.input.nb_streams)
        /\ probe.by # "none" =>
               /\ probe.tried # <<>>
               /\ probe.by = probe.tried[Len(probe.tried)]

C14_Witness ==
    /\ prog = "bootstrap" /\ pc = "done" /\ op = "connectCapture"
    /\ probe.tried = ProbeOrder /\ probe.by = "bytes"
    /\ connect_ok = "ok" /\ video_stream_index = 0

\* the field of camera_state that set parameter p is kept in
FieldOf(p) ==
    IF p = "iso" THEN "current_iso"
    ELSE IF p = "ev" THEN "current_ev"
    ELSE IF p = "iris" THEN "current_aperture"
    ELSE "current_shutter_angle"

\* C15: when the answer to a set request of applyRecommendations is not
\* well-formed JSON, the field of that parameter keeps the value it had in
\* memory before the step (the answers to the other requests of the step are
\* still processed).
C15_MalformedAnswerKeepsField ==
    [][(prog = "monitor" /\ op' = "applyRecommendations" /\ set_log' # set_log) =>
          \A i \in 1..Len(set_log') :
              set_log'[i].answer = "unparseable" =>
                  camera_state'[FieldOf(set_log'[i].param)]
                      = camera_state[FieldOf(set_log'[i].param)]]_vars

NativeISOs == {500, 2500}

\* C16: whenever recommendSettings of focus.cpp returns an ISO that differs
\* from the current one, that ISO is one of the two native values 500 and
\* 2500.
C16_OnlyNativeISORecommended ==
    (/\ prog = "advisor" /\ pc = "returned" /\ op = "recommendSettings"
     /\ rec.iso # camera_state.current_iso) => rec.iso \in NativeISOs

ShutterAngles == {90, 120, 180, 270}

\* C17: the shutter angle of every recommendation that recommendSettings
\* returns (focus.cpp, and the one of part_013 and part_014) is one of 90,
\* 120, 180 and 270 degrees.
C17_ShutterAngleFromSet ==
    (prog = "advisor" /\ pc = "returned") => rec.shutter_angle \in ShutterAngles

\* C18: the exposure score that analyzeExposureAndFocus (focus.cpp),
\* analyzeExposure (ffmpeg_cap.cpp, part_014) and ZCAMController::analyzeExposure
\* (part_013) report for a frame lies within 0 and 100, whatever brightness,
\* contrast, dynamic range and clipping the frame has.
C18_ScoreWithinRange ==
    (prog = "analyzer" /\ pc = "done") =>
        metrics.exposure_score >= 0 /\ metrics.exposure_score <= 10000

\* a frame whose penalties add up to more than 100
C18_Witness ==
    /\ prog = "analyzer" /\ pc = "done" /\ op = "analyzeExposureAndFocus"
    /\ focusScore(metrics) < 0
    /\ metrics.exposure_score = 0

\* the score from which focus.cpp prints EXCELLENT, its highest band
ExcellentScore == 80

FlatGray(f) == \A k \in DOMAIN f : f[k] = 128

\* the clipped percentages an analyzer reports, under the names it uses
ClippedOf(m, name) ==
    IF name = "analyzeExposureController"
    THEN m.highlights_clipped + m.shadows_clipped
    ELSE m.clipped_highlights + m.clipped_shadows

\* C20: for a frame whose pixels all have brightness 128 every analyzer
\* reports a contrast of 0 (below 1), no clipped pixels, and an exposure score
\* in the highest band (80 or more).
C20_FlatGrayNearMaximum ==
    (prog = "analyzer" /\ pc = "done" /\ FlatGray(frame)) =>
        /\ metrics.contrast < 100
        /\ ClippedOf(metrics, op) = 0
        /\ metrics.exposure_score >= ExcellentScore * 100

\* camera_state without what the call for an earlier frame left in it
Forget(cs) == [cs EXCEPT !.sun_factor = 0]

\* C19: the decision taken for a frame is a function of the metrics of that
\* frame, the current settings and the clock: recommendSettings gives the same
\* result when what an earlier call stored is erased, suggestCameraSettings
\* and adjustExposure are applied to the metrics of the frame and the current
\* settings, and the history that logExposureData keeps is only appended to,
\* by the update that follows a decision, and never changed by one.
C19_DecisionFromCurrentFrameOnly ==
    [][/\ (prog = "monitor" /\ pc = "recommend" /\ pc' # pc) =>
              \E minute \in LoopClock :
                  rec' = recommendSettings(metrics, Forget(camera_state),
                                           calculateSunAngleFactor(minute))
       /\ (prog = "surf" /\ pc = "suggest" /\ pc' # pc) =>
              /\ \E minute \in LoopClock :
                     rec' = suggestCameraSettings(metrics, camera_state,
                                                  getSunAngleFactor(minute))
              /\ exposure_history' = exposure_history
       /\ (prog = "production" /\ pc = "adjust" /\ pc' # pc) =>
              \E resp \in SetResponses :
                  settings' = adjustExposure(metrics, settings, resp).settings
       /\ (frames' > frames /\ prog \in {"monitor", "surf"}) => metrics' \in LoopMetrics
       /\ exposure_history' # exposure_history =>
              /\ op' = "updateZCAMSettings"
              /\ exposure_history' = exposure_history + 1
              /\ metrics' = metrics]_vars

\* the second frame of a run, decided at a sun factor other than the one the
\* first decision stored
C19_Witness ==
    /\ prog = "monitor" /\ op = "recommendSettings"
    /\ analysis_count = 2 /\ frames = 2
    /\ camera_state.sun_factor = 600
    /\ metrics.mean_brightness = 128 /\ rec.aperture = "8"

TooBright(m) == m.brightness - prod_target_brightness > prod_brightness_tolerance

\* nothing is left to lower: the ISO is at the minimum 400 and the iris is
\* closed to max_iris
FullyDimmed(st) == st.iso <= 400 /\ stod(st.iris) >= stod(max_iris)

\* C21: a call of adjustExposure of the production controller on a frame
\* that is too bright, in which every set call that is made succeeds, makes
\* progress from any ISO, the default 500 included: unless the ISO is at the
\* minimum and the iris at max_iris already, the call lowers the ISO or, at
\* the minimum ISO, closes the iris.
C21_BrightMakesProgress ==
    [][(/\ prog = "production" /\ pc = "adjust" /\ pc' # pc
        /\ TooBright(metrics)
        /\ \A i \in 1..Len(set_log') : set_log'[i].applied
        /\ ~FullyDimmed(settings)) =>
           \/ settings'.iso < settings.iso
           \/ /\ settings.iso <= 400 /\ settings'.iso = settings.iso
              /\ stod(settings'.iris) > stod(settings.iris)]_vars

\* the controller a run of the re-invocation repeats
Repeated == IF op = "adjustExposure" THEN "production" ELSE "monitor"

\* the current settings after one more round on frame m in which the camera
\* accepts every set request
RoundOf(program, m, minute) ==
    IF program = "production"
    THEN adjustExposure(m, settings, "code0").settings
    ELSE LET sun_factor == calculateSunAngleFactor(minute)
             r == recommendSettings(m, camera_state, sun_factor)
             cs == StoreSunFactor(camera_state, sun_factor)
         IN SettingsOf(applyRecommendations(r, cs, auto_adjust_enabled,
                           [p \in {"iso", "ev", "iris", "shutter_angle"} |-> "code0"]).state)

FramesOf(program) == IF program = "production" THEN ProdMetrics ELSE LoopMetrics

SettingsIn(program) ==
    IF program = "production" THEN {"iso", "iris"}
    ELSE {"current_iso", "current_ev", "current_aperture", "current_shutter_angle"}

\* setting p went from a value to another and back in the last two rounds,
\* which brought the settings as a whole back to what they were, and every
\* recommendation of these rounds was applied
WentBack(p) ==
    /\ Len(trail) >= 2
    /\ LET n == Len(trail)
       IN /\ trail[n].before = trail[n - 1].after
          /\ trail[n].after = trail[n - 1].before
          /\ trail[n].after[p] # trail[n].before[p]
          /\ trail[n].failed = {} /\ trail[n - 1].failed = {}

\* C22: re-invoked round after round with each recommendation applied, the
\* advisor can oscillate: whenever a setting has gone from a value to another
\* and back in two successive rounds, there is a frame for which the next
\* round takes the settings to the other value again, so the alternation can
\* go on for ever.  (That such an alternation occurs is the witness.)
C22_OscillationContinues ==
    prog = "repeat" =>
        \A p \in SettingsIn(Repeated) :
            WentBack(p) =>
                \E m \in FramesOf(Repeated), minute \in LoopClock :
                    RoundOf(Repeated, m, minute) = trail[Len(trail)].before

\* three rounds of adjustExposure, every set request accepted: the ISO goes
\* 500, 2500, 400, 2500 on frames that are too dark at ISO 500 and 400 and
\* too bright at ISO 2500
C22_Witness ==
    /\ prog = "repeat" /\ op = "adjustExposure" /\ Len(trail) = 3
    /\ WentBack("iso")
    /\ trail[1].before.iso = 500 /\ trail[1].after.iso = 2500
    /\ trail[2].after.iso = 400
    /\ trail[3].after.iso = 2500 /\ settings.iso = 2500 /\ adjustment_count = 3

\* the member of the current settings that set parameter p is kept in
FieldIn(program, p) == IF program = "production" THEN p ELSE FieldOf(p)

\* the last round saw the frame and the sun factor of the round before
SameScene ==
    /\ Len(trail) >= 2
    /\ trail[Len(trail)].metrics = trail[Len(trail) - 1].metrics
    /\ trail[Len(trail)].sun_factor = trail[Len(trail) - 1].sun_factor

\* the set request for p failed in the round before the last, and the value
\* in memory is the one from before that round
Stale(p) ==
    LET n == Len(trail)
    IN /\ p \in trail[n - 1].failed
       /\ trail[n].before[FieldIn(Repeated, p)] = trail[n - 1].before[FieldIn(Repeated, p)]

\* C23 as stated: after a set request failed, the round that follows on an
\* unchanged scene works on the unchanged value in memory and sends the set
\* request for the same change again.
C23_FailedChangeRequestedAgain ==
    (prog = "repeat" /\ SameScene) =>
        \A p \in trail[Len(trail) - 1].failed :
            /\ Stale(p)
            /\ trail[Len(trail)].asked[p] = trail[Len(trail) - 1].asked[p]
            /\ p \in trail[Len(trail)].sent

\* C23: after a set request failed, the value in memory is the one from
\* before, and on an unchanged scene the advisor's next recommendation asks
\* for the same change again.  adjustExposure then sends the same request
\* again; applyRecommendations sends it again exactly when the confidence of
\* the new recommendation passes the threshold, which it need not when
\* another change of the failed round was stored.
C23_FailedChangeRecommendedAgain ==
    (prog = "repeat" /\ SameScene) =>
        \A p \in trail[Len(trail) - 1].failed :
            /\ Stale(p)
            /\ trail[Len(trail)].asked[p] = trail[Len(trail) - 1].asked[p]
            /\ trail[Len(trail)].asked[p] # trail[Len(trail)].before[FieldIn(Repeated, p)]
            /\ p \in trail[Len(trail)].sent <=>
                   (Repeated = "production" \/ Gate(rec, auto_adjust_enabled))

\* the ISO request of the first round failed and is sent again in the second
C23_Witness ==
    /\ prog = "repeat" /\ op = "applyRecommendations" /\ SameScene /\ Len(trail) = 2
    /\ "iso" \in trail[1].failed /\ Stale("iso")
    /\ "iso" \in trail[2].sent
    /\ trail[2].asked.iso = trail[1].asked.iso

\* C24: after the service loop has handled a "shutdown" request of the
\* backend the process terminates; the first step of that is that the loop
\* of someService::run has been left by the pass that handled the request.
\* In the code the request is read only out of
\* a 200 response with a JSON body, and such a response is taken by the job
\* branch; the break is the else of that branch.  Nothing calls
\* ZCAMController::shutdown, so stop stays false in every controller.
C24_ShutdownTerminates ==
    (prog = "main" /\ op = "shutdown") => service_pc = "returned"

\* C26: a controller holds at most one open RTSP connection at any time.
\* initializeStream overwrites the file-scope format_ctx with a new context
\* on every tick, and cleanup is called by the destructor only.
C26_AtMostOneStream ==
    prog = "main" => \A t \in CameraThreads : controllers[t].streams <= 1

\* C25: whenever connect has returned success a video stream is selected
\* (index >= 0) and an opened decoder context exists.  connect of
\* ffmpeg_cap.cpp also succeeds when findVideoStreamManually took the stream
\* from codecpar or from the byte counts, and neither of these two ways sets
\* up a decoder.
C25_ConnectedHasDecoder ==
    (prog \in {"monitor", "capture"} /\ op = "connect" /\ connect_ok = "ok")
        => video_stream_index >= 0 /\ codec_ctx = "open"

\* C27: once the signal handler has cleared keep_running, the loops of
\* runMonitoring and runProductionMode start no further cycle (no
\* captureFrame step is taken), and the run function returns after a
\* bounded number of steps: as long as it has not returned a step of it is
\* enabled, and every step brings it nearer to its return
Runs == {"monitor", "production"}
StepsToReturn(at) ==
    CASE at = "done" -> 0
      [] at = "loop" -> 1
      [] at = "sleep" -> 2
      [] at \in {"apply", "adjust"} -> 3
      [] at = "recommend" -> 4
      [] at \in {"query", "read"} -> 5
      [] at = "connect" -> 6
      [] OTHER -> 7
C27_StoppedRunReturns ==
    /\ []((prog \in Runs /\ ~keep_running /\ pc # "done") => ENABLED Next)
    /\ [][(prog \in Runs /\ ~keep_running)
             => /\ op' # "captureFrame"
                /\ StepsToReturn(pc') <= StepsToReturn(pc)
                /\ pc' # pc => StepsToReturn(pc') < StepsToReturn(pc)
                /\ pc' = pc => pc = "done"]_vars
C27_Witness ==
    /\ prog = "monitor" /\ ~keep_running /\ pc = "done" /\ op = "stop"
    /\ analysis_count >= 1 /\ connect_ok = "ok"

\* C28: if the test of the camera HTTP API fails at start-up, auto-adjust
\* is off for the rest of the run: monitoring goes on (frames are captured
\* and analysed, recommendations are computed), but no set request is sent
\* and the in-memory settings stay what the constructor made them.
\* auto_adjust_enabled is true after construction and only the failed test
\* clears it.
C28_FailedTestDisablesAdjust ==
    /\ [](prog = "monitor" /\ ~auto_adjust_enabled
             => /\ set_log = <<>>
                /\ changes_applied = 0
                /\ SettingsOf(camera_state) = SettingsOf(InitialCameraState))
    /\ [][(prog = "monitor" /\ ~auto_adjust_enabled)
             => /\ ~auto_adjust_enabled'
                /\ op' \notin {"applyRecommendations", "getCurrentCameraSettings"}]_vars
C28_Witness ==
    /\ prog = "monitor" /\ ~auto_adjust_enabled /\ analysis_count >= 2
    /\ op = "recommendSettings"
    /\ \E p \in DOMAIN Wanted(rec, camera_state) : Wanted(rec, camera_state)[p]
    /\ rec.confidence >= confidence_threshold

\* C29: one adjustExposure call changes at most one camera parameter (the
\* ISO or the iris, never both), sends at most one set request, and raises
\* adjustment_count by at most one, and by one only when the set call of
\* this very call succeeded; a parameter changes only in that case too
C29_OneChangePerCall ==
    [][(prog = "production" /\ pc = "adjust")
          => /\ ~(settings'.iso # settings.iso /\ settings'.iris # settings.iris)
             /\ Len(set_log') <= 1
             /\ adjustment_count' \in {adjustment_count, adjustment_count + 1}
             /\ (adjustment_count' # adjustment_count \/ settings' # settings)
                   => /\ set_log' # <<>>
                      /\ set_log'[1].applied
                      /\ adjustment_count' = adjustment_count + 1
                      /\ settings' # settings]_vars
C29_Witness ==
    /\ prog = "production" /\ op = "adjustExposure"
    /\ adjustment_count = 2 /\ settings.iso = 400 /\ settings.iris = "14"
    /\ set_log # <<>> /\ set_log[1].param = "iris" /\ set_log[1].applied

\* C30: the promise behind https_async_get is fulfilled exactly once on
\* every path: set_value is never called a second time, also not when the
\* timeout handler has set the promise and the pending step then completes
\* with an error, and no path ends with the promise unset
C30_PromiseSetOnce ==
    prog = "async_get"
        => /\ async.set_value <= 1
           /\ (async.process = "terminated" \/ async.ioc = "stopped") => async.set_value = 1

\* C3: the confidence of every recommendation an advisor returns lies in
\* [0,1] (0 .. 1000 thousandths), whatever the metrics and the current
\* settings, also with 100% clipped highlights and 100% clipped shadows.
C3_ConfidenceInUnitInterval ==
    rec # NoRec => rec.confidence >= 0 /\ rec.confidence <= 1000

\* a recommendation for a frame with every pixel clipped both ways, whose
\* additions went past 1.0 and were cut back to it
C3_Witness ==
    /\ op \in Advisors
    /\ metrics.clipped_highlights = 100 /\ metrics.clipped_shadows = 100
    /\ rec.confidence = 1000

\* C9 as stated: a call of recommendSettings changes no controller state.
C9_NoSideEffect ==
    [][op' \in Advisors => camera_state' = camera_state]_vars

\* C9: a call of recommendSettings changes none of the current settings
\* (ISO, EV, aperture, shutter angle) and no other controller state except
\* camera_state.sun_factor, where it stores the factor it computed from the
\* wall clock; the recommendation is a function of the metrics, the current
\* settings and that factor.
C9_OnlySunFactorStored ==
    [][op' \in Advisors =>
          /\ SettingsOf(camera_state') = SettingsOf(camera_state)
          /\ UNCHANGED <<keep_running, streamVars, settings, ctlVars, metrics, set_log>>
          /\ rec' = AdviceOf(op', metrics, camera_state, camera_state'.sun_factor)]_vars

\* the same frame and settings at solar noon: the stored factor is no longer
\* the 0.5 it was constructed with and the aperture follows it
C9_Witness ==
    /\ op = "recommendSettingsFFmpeg"
    /\ camera_state.sun_factor = 1000
    /\ camera_state.current_aperture = "5.6"
    /\ rec.aperture = "8.0"

====
